---- MODULE Spec2Model ----
(***************************************************************************)
(* A model of sfxr.js: the parameter codec (Params.toB58 / Params.fromB58, *)
(* the hand-rolled binary32 pack/unpack, the base-58 big-number codec) and *)
(* the render engine (SoundEffect.init / initForRepeat / getRawBuffer).    *)
(*                                                                         *)
(* Numbers.  A JavaScript number that holds a parameter is modelled as a   *)
(* record [k, n, d, e]: k = "fin" is the real n/d * 2^e (n signed, d > 0), *)
(* k = "inf" is n * Infinity (n = 1 or -1) and k = "nan" is NaN.  The      *)
(* engine's real-valued coefficients and samples are fixed-point integers  *)
(* in units of 1/ONE, with NaN as a separate value; arithmetic on them     *)
(* truncates where double arithmetic rounds.  32-bit integers of the code  *)
(* (the bit pattern built by assembleFloat) are signed 32-bit values, so   *)
(* x >> k is x \div 2^k and x & (2^k - 1) is x % 2^k.                      *)
(*                                                                         *)
(* Also modelled: Params.fromJSON and Params.pickupCoin, FastBase64.Encode *)
(* and RiffWave (riffwave.ts), and SoundEffect.generate.                   *)
(*                                                                         *)
(* Specifications.  SpecCodec: toB58, damage to a token, fromB58.          *)
(* SpecJSON: fromJSON calls on one Params.  SpecRender: one engine's       *)
(* construction and getRawBuffer, one loop iteration per step              *)
(* (SpecRenderLive adds that the loop is not suspended).  SpecWave:        *)
(* RiffWave objects made from byte arrays.  SpecCoin: pickupCoin, then     *)
(* generate, tick by tick.  SpecRoundTrip: a token round trip followed by  *)
(* renders taken as whole calls.  SpecBase58: base58Encode and            *)
(* base58DecodeRaw on byte arrays of any length.  SpecPack: the codec on   *)
(* numbers that binary32 cannot hold.                                      *)
(***************************************************************************)
EXTENDS Integers, Sequences, FiniteSets, TLC

(***************************************************************************)
(* Arithmetic helpers                                                      *)
(***************************************************************************)
Abs(x) == IF x < 0 THEN -x ELSE x

Sgn(x) == IF x < 0 THEN -1 ELSE 1

RECURSIVE Pow2(_)
Pow2(k) == IF k <= 0 THEN 1 ELSE 2 * Pow2(k - 1)

\* <<q, r>> with a * b = q * c + r and 0 <= r < c, for a, b >= 0 and
\* 0 < c < 2^26, computed without forming the product a * b: b is taken
\* four bits at a time.
RECURSIVE MulDivRem(_, _, _)
MulDivRem(a, b, c) ==
  IF b = 0 THEN <<0, 0>>
  ELSE LET h  == MulDivRem(a, b \div 16, c)
           dg == b % 16
           s  == 16 * h[2] + dg * (a % c)
       IN  <<16 * h[1] + dg * (a \div c) + s \div c, s % c>>

\* floor(a * b / c) for a, b >= 0 and c > 0 (the operands are looked at
\* before the recursion is entered).
MulDiv(a, b, c) == IF a < 0 \/ b < 0 \/ c <= 0 THEN 0 ELSE MulDivRem(a, b, c)[1]

(***************************************************************************)
(* JavaScript numbers holding parameters                                   *)
(***************************************************************************)
Fin(n, d, e) == [k |-> "fin", n |-> n, d |-> d, e |-> e]

Inf(s) == [k |-> "inf", n |-> s, d |-> 1, e |-> 0]

NaNNum == [k |-> "nan", n |-> 0, d |-> 1, e |-> 0]

Zero == Fin(0, 1, 0)

\* A decimal literal n / d.
Dec(n, d) == Fin(n, d, 0)

IsFin(x) == x.k = "fin"

IsZero(x) == x.k = "fin" /\ x.n = 0

\* floor(log2(n / d)) for n, d > 0.
RECURSIVE Log2Floor(_, _)
Log2Floor(n, d) ==
  IF n >= d
  THEN IF n < 2 * d THEN 0 ELSE 1 + Log2Floor(n, 2 * d)
  ELSE Log2Floor(2 * n, d) - 1

\* The fixed-point scale: reals of the engine are integers in units of 1/ONE.
ONE == 1000 * 1000

\* x * ONE truncated toward zero, for a finite x.
ToFix(x) ==
  LET a == Abs(x.n)
      q == IF x.e >= 0 THEN MulDiv(a * Pow2(x.e), ONE, x.d)
           ELSE IF x.e <= -31 THEN 0
           ELSE MulDiv(a, ONE, x.d) \div Pow2(-x.e)
  IN  Sgn(x.n) * q

\* floor(x * x * k) for a finite x with |x| <= 2 and an integer k > 0, exact.
FloorSqrTimes(x, k) ==
  LET a  == Abs(x.n) * Pow2(x.e)
      m1 == MulDivRem(a, a, x.d)
      m2 == MulDivRem(m1[1], k, x.d)
      m3 == MulDivRem(m1[2], k, x.d)
      v  == m2[1] + (m2[2] + m3[1]) \div x.d
  IN  IF x.e >= 0 THEN v
      ELSE IF 2 * x.e <= -31 THEN 0
      ELSE v \div Pow2(-2 * x.e)

(***************************************************************************)
(* sfxr.ts: constants                                                      *)
(***************************************************************************)
SQUARE == 0

SAWTOOTH == 1

SINE == 2

NOISE == 3

OVERSAMPLING == 8

\* What reading past the end of an array, or a missing field, yields.
Undefined == -1

b58alphabet ==
  << "1", "2", "3", "4", "5", "6", "7", "8", "9",
     "A", "B", "C", "D", "E", "F", "G", "H", "J", "K", "L", "M", "N", "P",
     "Q", "R", "S", "T", "U", "V", "W", "X", "Y", "Z",
     "a", "b", "c", "d", "e", "f", "g", "h", "i", "j", "k", "m", "n", "o",
     "p", "q", "r", "s", "t", "u", "v", "w", "x", "y", "z" >>

paramsOrder ==
  << "wave_type", "p_env_attack", "p_env_sustain", "p_env_punch",
     "p_env_decay", "p_base_freq", "p_freq_limit", "p_freq_ramp",
     "p_freq_dramp", "p_vib_strength", "p_vib_speed", "p_arp_mod",
     "p_arp_speed", "p_duty", "p_duty_ramp", "p_repeat_speed",
     "p_pha_offset", "p_pha_ramp", "p_lpf_freq", "p_lpf_ramp",
     "p_lpf_resonance", "p_hpf_freq", "p_hpf_ramp" >>

\* The 22 p_* fields.
PFields == {paramsOrder[i] : i \in 2..Len(paramsOrder)}

(***************************************************************************)
(* sfxr.ts: the binary32 pack / unpack                                     *)
(***************************************************************************)
\* (sign << 31) | (exponent << 23) | mantissa, as a signed 32-bit value.
assembleFloat(sign, exponent, mantissa) ==
  exponent * Pow2(23) + mantissa + sign * ((-Pow2(30)) * 2)

\* floor(flt / 2^exponent * 2^23) for a finite flt > 0: the 24 leading bits.
Mantissa24(flt) ==
  LET a == Abs(flt.n)
      k == Log2Floor(a, flt.d)
  IN  IF k >= 0 THEN MulDiv(a, Pow2(23), flt.d * Pow2(k))
      ELSE MulDiv(a * Pow2(-k), Pow2(23), flt.d)

\* A floatToNumber that flushes magnitudes below 2^-126 to a signed zero.
floatToNumberFlush(flt) ==
  IF flt.k = "nan" THEN assembleFloat(0, 255, 4919)
  ELSE LET sign == IF flt.n < 0 THEN 1 ELSE 0
       IN  IF flt.k = "inf" THEN assembleFloat(sign, 255, 0)
           ELSE IF flt.n = 0 THEN assembleFloat(sign, 0, 0)
           ELSE LET exponent == Log2Floor(Abs(flt.n), flt.d) + flt.e
                IN  IF exponent > 127 THEN assembleFloat(sign, 255, 0)
                    ELSE IF exponent < -126 THEN assembleFloat(sign, 0, 0)
                    ELSE assembleFloat(sign, exponent + 127,
                                       Mantissa24(flt) % Pow2(23))

floatToNumber(flt) ==
  IF flt.k = "nan" THEN assembleFloat(0, 255, 4919)
  ELSE LET sign == IF flt.n < 0 THEN 1 ELSE 0
       IN  IF flt.k = "inf" THEN assembleFloat(sign, 255, 0)
           ELSE IF flt.n = 0 THEN assembleFloat(sign, 0, 0)
           ELSE LET exponent == Log2Floor(Abs(flt.n), flt.d) + flt.e
                IN  IF exponent > 127 \/ exponent < -126
                    THEN assembleFloat(sign, 255, 0)
                    ELSE assembleFloat(sign, exponent + 127,
                                       Mantissa24(flt) % Pow2(23))

\* numberToFloat without its case for a zero exponent field and mantissa.
numberToFloatNoZero(bytes) ==
  LET sign        == IF bytes < 0 THEN -1 ELSE 1
      exponent    == ((bytes \div Pow2(23)) % 256) - 127
      significand == bytes % Pow2(23)
  IN  IF exponent = 128
      THEN (IF significand # 0 THEN NaNNum ELSE Inf(sign))
      ELSE Fin(sign * (significand + Pow2(23)), Pow2(23), exponent)

numberToFloat(bytes) ==
  LET sign        == IF bytes < 0 THEN -1 ELSE 1
      exponent    == ((bytes \div Pow2(23)) % 256) - 127
      significand == bytes % Pow2(23)
  IN  IF exponent = 128
      THEN (IF significand # 0 THEN NaNNum ELSE Inf(sign))
      ELSE IF exponent = -127
      THEN (IF significand = 0 THEN Zero
            ELSE Fin(sign * significand, Pow2(22), exponent))
      ELSE Fin(sign * (significand + Pow2(23)), Pow2(23), exponent)

(***************************************************************************)
(* sfxr.ts: the base-58 big-number codec                                   *)
(***************************************************************************)
\* The loops of the two codecs run over up to 89 bytes and some 120 digits.
\* Each is written as a fold over an index range [lo, hi) that splits the
\* range in two: the steps are taken in the loop's order, one after another
\* (in the outer loops the test on the left half's result has it evaluated
\* before the right half is entered).

\* base58Encode's inner while loop over the existing digits lo .. hi - 1,
\* entered with carry c: at each digit j, n = d[j] * 256 + c (or c when d[j]
\* is 0), d[j] = n % 58, c = floor(n / 58).  The result holds the new digits
\* of the range and the carry left.
RECURSIVE EncodeDigits(_, _, _, _)
EncodeDigits(d, lo, hi, c) ==
  IF hi <= lo THEN [d |-> <<>>, c |-> c]
  ELSE IF hi = lo + 1
  THEN LET n0 == d[lo + 1]
           n  == IF n0 # 0 THEN n0 * 256 + c ELSE c
       IN  [d |-> <<n % 58>>, c |-> n \div 58]
  ELSE LET mid   == (lo + hi) \div 2
           left  == EncodeDigits(d, lo, mid, c)
           right == EncodeDigits(d, mid, hi, left.c)
       IN  [d |-> left.d \o right.d, c |-> right.c]

\* The inner loop past the last existing digit: it goes on while c # 0.
RECURSIVE EncodeTail(_)
EncodeTail(st) ==
  IF st.c # 0
  THEN EncodeTail([d |-> Append(st.d, st.c % 58), c |-> st.c \div 58])
  ELSE st

\* The inner while loop of base58Encode, entered with j = 0: the digit array
\* and the value of j it leaves.
EncodeCarry(d, c) ==
  LET st == EncodeTail(EncodeDigits(d, 0, Len(d), c))
  IN  [d |-> st.d, j |-> Len(st.d)]

\* An iteration that writes a "1" for every zero byte, leading or not.
EncodeByteEveryZero(data, st, i) ==
  LET c == data[i + 1]
      r == EncodeCarry(st.d, c)
  IN  [ d |-> r.d,
        s |-> IF c = 0 THEN Append(st.s, "1") ELSE st.s,
        j |-> r.j ]

\* One iteration of base58Encode's for loop, at index i (0-based).
EncodeByte(data, st, i) ==
  LET c == data[i + 1]
      r == EncodeCarry(st.d, c)
  IN  [ d |-> r.d,
        s |-> IF c = 0 /\ Len(st.s) = i THEN Append(st.s, "1") ELSE st.s,
        j |-> r.j ]

RECURSIVE EncodeBytes(_, _, _, _)
EncodeBytes(data, st, lo, hi) ==
  IF hi <= lo THEN st
  ELSE IF hi = lo + 1 THEN EncodeByte(data, st, lo)
  ELSE LET mid == (lo + hi) \div 2
           left == EncodeBytes(data, st, lo, mid)
       IN  IF left.j >= 0 THEN EncodeBytes(data, left, mid, hi) ELSE left

\* Params.base58Encode; the closing loop is while (j-- > 0) s += alphabet[d[j]].
base58Encode(data) ==
  LET st == EncodeBytes(data, [d |-> <<>>, s |-> <<>>, j |-> 0], 0, Len(data))
  IN  st.s \o [k \in 1..st.j |-> b58alphabet[st.d[st.j - k + 1] + 1]]

\* alphabet.indexOf(ch)
IndexOf(alphabet, ch) ==
  IF \E i \in 1..Len(alphabet) : alphabet[i] = ch
  THEN (CHOOSE i \in 1..Len(alphabet) : alphabet[i] = ch) - 1
  ELSE -1

\* base58DecodeRaw's inner while loop over the existing digits lo .. hi - 1,
\* entered with carry c: at each digit j, n = d[j] * 58 + c (or c when d[j]
\* is 0), c = n >> 8, d[j] = n % 256.
RECURSIVE DecodeDigits(_, _, _, _)
DecodeDigits(d, lo, hi, c) ==
  IF hi <= lo THEN [d |-> <<>>, c |-> c]
  ELSE IF hi = lo + 1
  THEN LET n0 == d[lo + 1]
           n  == IF n0 # 0 THEN n0 * 58 + c ELSE c
       IN  [d |-> <<n % 256>>, c |-> n \div 256]
  ELSE LET mid   == (lo + hi) \div 2
           left  == DecodeDigits(d, lo, mid, c)
           right == DecodeDigits(d, mid, hi, left.c)
       IN  [d |-> left.d \o right.d, c |-> right.c]

RECURSIVE DecodeTail(_)
DecodeTail(st) ==
  IF st.c # 0
  THEN DecodeTail([d |-> Append(st.d, st.c % 256), c |-> st.c \div 256])
  ELSE st

\* The inner while loop of base58DecodeRaw, entered with j = 0.
DecodeCarry(d, c) ==
  LET st == DecodeTail(DecodeDigits(d, 0, Len(d), c))
  IN  [d |-> st.d, j |-> Len(st.d)]

\* DecodeChar without the throw: a character outside the alphabet counts as
\* a digit 0.
DecodeCharNoThrow(s, alphabet, st, i) ==
  LET c == IF IndexOf(alphabet, s[i + 1]) < 0 THEN 0
           ELSE IndexOf(alphabet, s[i + 1])
      r == DecodeCarry(st.d, c)
  IN  [ ok |-> TRUE,
        d  |-> r.d,
        b  |-> IF c # 0 \/ Len(st.b) # i THEN st.b ELSE Append(st.b, 0),
        j  |-> r.j ]

\* One iteration of base58DecodeRaw's for loop, at index i; once a character
\* outside the alphabet has thrown (ok = FALSE) nothing more is done.
DecodeChar(s, alphabet, st, i) ==
  IF ~st.ok THEN st
  ELSE LET c == IndexOf(alphabet, s[i + 1])
       IN  IF c < 0 THEN [st EXCEPT !.ok = FALSE]
           ELSE LET r == DecodeCarry(st.d, c)
                IN  [ ok |-> TRUE,
                      d  |-> r.d,
                      b  |-> IF c # 0 \/ Len(st.b) # i THEN st.b
                             ELSE Append(st.b, 0),
                      j  |-> r.j ]

RECURSIVE DecodeChars(_, _, _, _, _)
DecodeChars(s, alphabet, st, lo, hi) ==
  IF hi <= lo THEN st
  ELSE IF hi = lo + 1 THEN DecodeChar(s, alphabet, st, lo)
  ELSE LET mid == (lo + hi) \div 2
           left == DecodeChars(s, alphabet, st, lo, mid)
       IN  IF left.ok THEN DecodeChars(s, alphabet, left, mid, hi) ELSE left

\* base58DecodeRaw; a throw is [ok |-> FALSE].  The closing loop is
\* while (j-- > 0) b.push(d[j]).
base58DecodeRaw(s, alphabet) ==
  LET st == DecodeChars(s, alphabet,
                        [ok |-> TRUE, d |-> <<>>, b |-> <<>>, j |-> 0],
                        0, Len(s))
  IN  IF st.ok
      THEN [ok |-> TRUE,
            bytes |-> st.b \o [k \in 1..st.j |-> st.d[st.j - k + 1]]]
      ELSE [ok |-> FALSE, bytes |-> <<>>]

(***************************************************************************)
(* sfxr.ts: Params                                                         *)
(***************************************************************************)
\* new Params(): the class defaults.
DefaultParams ==
  [ oldParams       |-> TRUE,
    wave_type       |-> SQUARE,
    p_env_attack    |-> Zero,
    p_env_sustain   |-> Dec(3, 10),
    p_env_punch     |-> Zero,
    p_env_decay     |-> Dec(4, 10),
    p_base_freq     |-> Dec(3, 10),
    p_freq_limit    |-> Zero,
    p_freq_ramp     |-> Zero,
    p_freq_dramp    |-> Zero,
    p_vib_strength  |-> Zero,
    p_vib_speed     |-> Zero,
    p_arp_mod       |-> Zero,
    p_arp_speed     |-> Zero,
    p_duty          |-> Zero,
    p_duty_ramp     |-> Zero,
    p_repeat_speed  |-> Zero,
    p_pha_offset    |-> Zero,
    p_pha_ramp      |-> Zero,
    p_lpf_freq      |-> Dec(1, 1),
    p_lpf_ramp      |-> Zero,
    p_lpf_resonance |-> Zero,
    p_hpf_freq      |-> Zero,
    p_hpf_ramp      |-> Zero,
    sound_vol       |-> Dec(1, 2),
    sample_rate     |-> 44100,
    sample_size     |-> 8 ]

\* The bytes of a field pushed most-significant byte first.
FieldBytesBigEndian(this, p) ==
  IF p = "wave_type" THEN <<this[p]>>
  ELSE LET val == floatToNumber(this[p])
       IN  << (val \div 16777216) % 256, (val \div 65536) % 256,
              (val \div 256) % 256, val % 256 >>

\* The bytes toB58 pushes for one entry of paramsOrder.
FieldBytes(this, p) ==
  IF p = "wave_type" THEN <<this[p]>>
  ELSE LET val == floatToNumber(this[p])
       IN  << val % 256, (val \div 256) % 256,
              (val \div 65536) % 256, (val \div 16777216) % 256 >>

RECURSIVE ConvertFrom(_, _)
ConvertFrom(this, pi) ==
  IF pi > Len(paramsOrder) THEN <<>>
  ELSE FieldBytes(this, paramsOrder[pi]) \o ConvertFrom(this, pi + 1)

\* The byte array toB58 hands to base58Encode.
ToBytes(this) == ConvertFrom(this, 1)

toB58(this) == base58Encode(ToBytes(this))

\* decoded[i] of a Uint8Array (i from 0).
ByteAt(decoded, i) == IF i < Len(decoded) THEN decoded[i + 1] ELSE Undefined

\* A read that hands undefined to | and << as it is.
BitsAtUndefined(decoded, i) ==
  IF i < Len(decoded) THEN decoded[i + 1] ELSE Undefined

\* decoded[i] as an operand of | and <<: undefined counts as 0.
BitsAt(decoded, i) == IF i < Len(decoded) THEN decoded[i + 1] ELSE 0

\* b0 | b1 << 8 | b2 << 16 | b3 << 24, as a signed 32-bit value.
Word32(b0, b1, b2, b3) ==
  b0 + 256 * b1 + 65536 * b2 + 16777216 * (IF b3 >= 128 THEN b3 - 256 ELSE b3)

\* b58decode's result for the bytes decoded: a mapping from the names of
\* paramsOrder to values.
DecodeFields(decoded) ==
  [ p \in {paramsOrder[i] : i \in 1..Len(paramsOrder)} |->
      IF p = "wave_type" THEN ByteAt(decoded, 0)
      ELSE LET pi     == (CHOOSE i \in 1..Len(paramsOrder) : paramsOrder[i] = p) - 1
               offset == (pi - 1) * 4 + 1
           IN  numberToFloat(Word32(BitsAt(decoded, offset),
                                    BitsAt(decoded, offset + 1),
                                    BitsAt(decoded, offset + 2),
                                    BitsAt(decoded, offset + 3))) ]

\* b58decode: [ok |-> FALSE] when base58DecodeRaw throws.
b58decode(b58encoded) ==
  LET raw == base58DecodeRaw(b58encoded, b58alphabet)
  IN  IF raw.ok THEN [ok |-> TRUE, result |-> DecodeFields(raw.bytes)]
      ELSE [ok |-> FALSE, result |-> << >>]

\* Params.fromJSON: every own key of struct is assigned on this.
fromJSON(this, struct) ==
  [ p \in DOMAIN this \cup DOMAIN struct |->
      IF p \in DOMAIN struct THEN struct[p] ELSE this[p] ]

\* Params.fromB58: [ok |-> FALSE] when the decode throws; this is then as
\* it was, since fromJSON is never reached.
fromB58(this, b58encoded) ==
  LET dec == b58decode(b58encoded)
  IN  IF dec.ok THEN [ok |-> TRUE, this |-> fromJSON(this, dec.result)]
      ELSE [ok |-> FALSE, this |-> this]

\* base10 / 10 + frnd(range10 / 10), frnd(range) being Math.random() * range
\* and Math.random() the k-th value of the stream seeded by seed (the stream
\* itself is RandomAt, below: its values are multiples of 1 / 65536).
FrndPlus(base10, seed, k, range10) ==
  Dec(base10 * 65536
        + range10 * ((((seed + k) % 65536) * 7919) % 65536), 655360)

\* rnd(max), Math.floor(Math.random() * (max + 1)), for the k-th value.
rnd(max, seed, k) ==
  (((((seed + k) % 65536) * 7919) % 65536) * (max + 1)) \div 65536

\* pickupCoin with p_freq_limit set to 1, above every base frequency drawn.
pickupCoinLimited(this, seed) ==
  LET coin == [ this EXCEPT
                  !.wave_type     = SAWTOOTH,
                  !.p_base_freq   = FrndPlus(4, seed, 0, 5),
                  !.p_freq_limit  = Dec(1, 1),
                  !.p_env_attack  = Zero,
                  !.p_env_sustain = FrndPlus(0, seed, 1, 1),
                  !.p_env_decay   = FrndPlus(1, seed, 2, 4),
                  !.p_env_punch   = FrndPlus(3, seed, 3, 3) ]
  IN  IF rnd(1, seed, 4) # 0
      THEN [ coin EXCEPT !.p_arp_speed = FrndPlus(5, seed, 5, 2),
                         !.p_arp_mod   = FrndPlus(2, seed, 6, 4) ]
      ELSE coin

\* Params.pickupCoin, its Math.random() calls answered by the stream seeded
\* by seed, from the stream's first value on.
pickupCoin(this, seed) ==
  LET coin == [ this EXCEPT
                  !.wave_type     = SAWTOOTH,
                  !.p_base_freq   = FrndPlus(4, seed, 0, 5),
                  !.p_env_attack  = Zero,
                  !.p_env_sustain = FrndPlus(0, seed, 1, 1),
                  !.p_env_decay   = FrndPlus(1, seed, 2, 4),
                  !.p_env_punch   = FrndPlus(3, seed, 3, 3) ]
  IN  IF rnd(1, seed, 4) # 0
      THEN [ coin EXCEPT !.p_arp_speed = FrndPlus(5, seed, 5, 2),
                         !.p_arp_mod   = FrndPlus(2, seed, 6, 4) ]
      ELSE coin

(***************************************************************************)
(* sfxr.ts: the arithmetic of the render engine                            *)
(***************************************************************************)
\* The engine's reals are fixed-point integers in units of 1/ONE; period and
\* periodMax, which reach 100000, are in units of 1/1000.  NaN is the one
\* not-a-number value these computations produce (0 / 0 at line 892).
NaN == -2147483647

\* Math.PI, in units of 1/ONE.
PI == 3141593

\* let masterVolume = 1
masterVolume == ONE

\* The value of F at the value of e (and of a and b).  TLC computes an
\* operator's argument anew at each use of it when it evaluates ENABLED; here
\* the argument is computed once.
Then(e, F(_)) == CHOOSE r \in {F(x) : x \in {e}} : TRUE

Then2(a, b, F(_, _)) == CHOOSE r \in {F(x, y) : x \in {a}, y \in {b}} : TRUE

\* a * b / ONE truncated toward zero, without forming a * b.
FMulOf(a, b) ==
  LET x  == Abs(a)
      y  == Abs(b)
      x1 == x \div 1000
      x0 == x % 1000
      y1 == y \div 1000
      y0 == y % 1000
      m  == x1 * y0 + x0 * y1
  IN  Sgn(a) * Sgn(b) * (x1 * y1 + (m + (x0 * y0) \div 1000) \div 1000)

FMul(a, b) == Then2(a, b, FMulOf)

\* a / b in units of 1/ONE, truncated toward zero, for b # 0.
FDiv(a, b) == Sgn(a) * Sgn(b) * MulDiv(Abs(a), ONE, Abs(b))

\* a / c in units of 1/ONE for integers 0 <= a, c <= 2000000 with c > 0.
Ratio(a, c) ==
  Then2(a * 1000, c, LAMBDA u, d : (u \div d) * 1000 + ((u % d) * 1000) \div d)

\* a / n truncated toward zero, for an integer n > 0.
TDiv(a, n) == Then(a, LAMBDA x : Sgn(x) * (Abs(x) \div n))

\* Arithmetic through which NaN passes.
NAdd(a, b) ==
  Then2(a, b, LAMBDA x, y : IF x = NaN \/ y = NaN THEN NaN ELSE x + y)

NMul(a, b) ==
  Then2(a, b, LAMBDA x, y : IF x = NaN \/ y = NaN THEN NaN ELSE FMulOf(x, y))

NDivInt(a, n) == Then(a, LAMBDA x : IF x = NaN THEN NaN ELSE TDiv(x, n))

\* Math.floor of a fixed-point value.
Floor(x) == x \div ONE

Sqr(x) == FMul(x, x)

Cube(x) == FMul(FMul(x, x), x)

\* Math.sin on [-PI/2, PI/2]: the series up to x^11 / 11!.
SinSeries(x) ==
  LET x2 == FMul(x, x)
      t3 == TDiv(FMul(x, x2), 6)
      t5 == TDiv(FMul(t3, x2), 20)
      t7 == TDiv(FMul(t5, x2), 42)
      t9 == TDiv(FMul(t7, x2), 72)
      t11 == TDiv(FMul(t9, x2), 110)
  IN  x - t3 + t5 - t7 + t9 - t11

\* Math.sin.
Sin(x) ==
  Then(x % (2 * PI),
       LAMBDA r : IF 2 * r <= PI THEN SinSeries(r)
                  ELSE IF 2 * r <= 3 * PI THEN SinSeries(PI - r)
                  ELSE SinSeries(r - 2 * PI))

\* Math.exp(x) - 1 for 0 <= x <= 1: the series up to x^10 / 10!.
RECURSIVE ExpTerms(_, _, _)
ExpTerms(x, term, k) ==
  IF k > 10 THEN 0
  ELSE LET t == TDiv(FMul(term, x), k)
       IN  t + ExpTerms(x, t, k + 1)

ExpM1(x) == ExpTerms(x, ONE, 1)

\* flt === 1 for a parameter value.
IsOne(x) ==
  /\ IsFin(x)
  /\ IF x.e >= 0 THEN x.n * Pow2(x.e) = x.d
     ELSE /\ x.e > -31
          /\ x.n % Pow2(-x.e) = 0
          /\ x.n \div Pow2(-x.e) = x.d

(***************************************************************************)
(* sfxr.ts: SoundEffect                                                    *)
(***************************************************************************)
\* The field initialisers of the class.
NewSoundEffect ==
  [ elapsedSinceRepeat    |-> 0,
    period                |-> 0,
    periodMax             |-> 0,
    enableFrequencyCutoff |-> FALSE,
    periodMult            |-> 0,
    periodMultSlide       |-> 0,
    dutyCycle             |-> 0,
    dutyCycleSlide        |-> 0,
    arpeggioMultiplier    |-> 0,
    arpeggioTime          |-> 0,
    waveShape             |-> SQUARE,
    fltw                  |-> 0,
    enableLowPassFilter   |-> FALSE,
    fltw_d                |-> 0,
    fltdmp                |-> 0,
    flthp                 |-> 0,
    flthp_d               |-> 0,
    vibratoSpeed          |-> 0,
    vibratoAmplitude      |-> 0,
    envelopeLength        |-> << >>,
    envelopePunch         |-> 0,
    flangerOffset         |-> 0,
    flangerOffsetSlide    |-> 0,
    repeatTime            |-> 0,
    gain                  |-> 0,
    sampleRate            |-> 44100,
    bitsPerChannel        |-> 8 ]

\* floor((1 - speed)^2 * 20000 + 32), as arpeggioTime and repeatTime have it.
SpeedTime(speed) == Sqr(ONE - ToFix(speed)) \div 50 + 32

\* initForRepeat restarting the phaser as well.
initForRepeatPhaser(this, ps) ==
  [ this EXCEPT
      !.elapsedSinceRepeat = 0,
      !.period = Ratio(100000, Sqr(ToFix(ps.p_base_freq)) + 1000),
      !.periodMax = Ratio(100000, Sqr(ToFix(ps.p_freq_limit)) + 1000),
      !.enableFrequencyCutoff = (ps.p_freq_limit.n > 0),
      !.periodMult = ONE - FMul(Cube(ToFix(ps.p_freq_ramp)), 10000),
      !.periodMultSlide = -FMul(Cube(ToFix(ps.p_freq_dramp)), 1),
      !.dutyCycle = ONE \div 2 - FMul(ToFix(ps.p_duty), ONE \div 2),
      !.dutyCycleSlide = -FMul(ToFix(ps.p_duty_ramp), 50),
      !.arpeggioMultiplier =
          IF ps.p_arp_mod.n >= 0
          THEN ONE - FMul(Sqr(ToFix(ps.p_arp_mod)), 900000)
          ELSE ONE + Sqr(ToFix(ps.p_arp_mod)) * 10,
      !.arpeggioTime =
          IF IsOne(ps.p_arp_speed) THEN 0 ELSE SpeedTime(ps.p_arp_speed),
      !.flangerOffset = 0 ]

initForRepeat(this, ps) ==
  [ this EXCEPT
      !.elapsedSinceRepeat = 0,
      !.period = Ratio(100000, Sqr(ToFix(ps.p_base_freq)) + 1000),
      !.periodMax = Ratio(100000, Sqr(ToFix(ps.p_freq_limit)) + 1000),
      !.enableFrequencyCutoff = (ps.p_freq_limit.n > 0),
      !.periodMult = ONE - FMul(Cube(ToFix(ps.p_freq_ramp)), 10000),
      !.periodMultSlide = -FMul(Cube(ToFix(ps.p_freq_dramp)), 1),
      !.dutyCycle = ONE \div 2 - FMul(ToFix(ps.p_duty), ONE \div 2),
      !.dutyCycleSlide = -FMul(ToFix(ps.p_duty_ramp), 50),
      !.arpeggioMultiplier =
          IF ps.p_arp_mod.n >= 0
          THEN ONE - FMul(Sqr(ToFix(ps.p_arp_mod)), 900000)
          ELSE ONE + Sqr(ToFix(ps.p_arp_mod)) * 10,
      !.arpeggioTime =
          IF IsOne(ps.p_arp_speed) THEN 0 ELSE SpeedTime(ps.p_arp_speed) ]

init(this, ps) ==
  LET r    == initForRepeat(this, ps)
      fltw == FMul(Cube(ToFix(ps.p_lpf_freq)), 100000)
      dmp  == FMul(FDiv(5 * ONE, ONE + Sqr(ToFix(ps.p_lpf_resonance)) * 20),
                   10000 + fltw)
      off  == Sqr(ToFix(ps.p_pha_offset)) * 1020
      sl   == Sqr(ToFix(ps.p_pha_ramp))
  IN  [ r EXCEPT
          !.waveShape = ps.wave_type,
          !.fltw = fltw,
          !.enableLowPassFilter = ~IsOne(ps.p_lpf_freq),
          !.fltw_d = ONE + FMul(ToFix(ps.p_lpf_ramp), 100),
          !.fltdmp = IF dmp > 800000 THEN 800000 ELSE dmp,
          !.flthp = FMul(Sqr(ToFix(ps.p_hpf_freq)), 100000),
          !.flthp_d = ONE + FMul(ToFix(ps.p_hpf_ramp), 300),
          !.vibratoSpeed = FMul(Sqr(ToFix(ps.p_vib_speed)), 10000),
          !.vibratoAmplitude = FMul(ToFix(ps.p_vib_strength), 500000),
          !.envelopeLength = << FloorSqrTimes(ps.p_env_attack, 100000),
                                FloorSqrTimes(ps.p_env_sustain, 100000),
                                FloorSqrTimes(ps.p_env_decay, 100000) >>,
          !.envelopePunch = ToFix(ps.p_env_punch),
          !.flangerOffset = IF ps.p_pha_offset.n < 0 THEN -off ELSE off,
          !.flangerOffsetSlide = IF ps.p_pha_ramp.n < 0 THEN -sl ELSE sl,
          !.repeatTime =
              IF IsZero(ps.p_repeat_speed) THEN 0
              ELSE SpeedTime(ps.p_repeat_speed),
          !.gain = ExpM1(ToFix(ps.sound_vol)),
          !.sampleRate = ps.sample_rate,
          !.bitsPerChannel = ps.sample_size ]

\* Math.random is a stream of values in [0, 1) that the caller cannot
\* foresee: the stream is picked, by its seed, when getRawBuffer is called,
\* and its k-th value is RandomAt(seed, k).
RandomAt(seed, k) == (((seed + k) % 65536) * 7919) % 65536

\* Math.random() * 2 - 1 for the k-th value of the stream.
RandomSample(seed, k) == (RandomAt(seed, k) * 15625) \div 512 - ONE

\* for (i = 0; i < 32; ++i) noiseBuffer[i] = Math.random() * 2 - 1, after
\* drawn values of the stream have been used.
FillNoise(seed, drawn) == [i \in 1..32 |-> RandomSample(seed, drawn + i - 1)]

\* The locals of getRawBuffer before the loop; seed and drawn are the random
\* stream and how many of its values have been used.
NewLocals(this, seed) ==
      [ fltp            |-> 0,
        fltdp           |-> 0,
        fltphp          |-> 0,
        noiseBuffer     |-> FillNoise(seed, 0),
        seed            |-> seed,
        drawn           |-> 32,
        envelopeStage   |-> 0,
        envelopeElapsed |-> 0,
        vibratoPhase    |-> 0,
        phase           |-> 0,
        ipp             |-> 0,
        flangerBuffer   |-> << >>,
        numClipped      |-> 0,
        buffer          |-> << >>,
        normalized      |-> << >>,
        sampleSum       |-> 0,
        numSummed       |-> 0,
        summands        |-> 44100 \div this.sampleRate,
        t               |-> 0 ]

\* flangerBuffer is new Array(1024).fill(0), written at ipp = 0, 1, 2, ...
\* in turn: it is held as the entries written so far, in index order, the
\* entries after them being the 0 they were filled with.
FlangerWrite(flangerBuffer, i, v) ==
  IF i < Len(flangerBuffer) THEN [flangerBuffer EXCEPT ![i + 1] = v]
  ELSE Append(flangerBuffer, v)

FlangerRead(flangerBuffer, i) ==
  IF i < Len(flangerBuffer) THEN flangerBuffer[i + 1] ELSE 0

\* The state of one iteration of getRawBuffer's for (t = 0; ; ++t) loop:
\* the engine's fields, the call's locals, how the iteration has ended so far
\* ("none": it has not; "break"; "throw"), and the iteration's own locals.
TickState(this, run) ==
  [ this |-> this, run |-> run, exit |-> "none",
    iperiod |-> 0, envVol |-> 0, iphase |-> 0, sample |-> 0 ]

\* Repeat handling; ps is what this.parameters refers to.
RepeatStep(st, ps) ==
  LET el == st.this.elapsedSinceRepeat + 1
  IN  IF st.this.repeatTime = 0 THEN st
      ELSE IF el >= st.this.repeatTime
      THEN [st EXCEPT !.this = initForRepeat(@, ps)]
      ELSE [st EXCEPT !.this.elapsedSinceRepeat = el]

\* The loop's repeat test, for the tick that this is about to make.
AtRepeatBoundary(this) ==
  this.repeatTime # 0 /\ this.elapsedSinceRepeat + 1 >= this.repeatTime

\* The test of the arpeggio handling on the tick that this and run are about
\* to make: it follows the repeat handling.
ArpeggioFires(this, run, ps) ==
  \E st \in {RepeatStep(TickState(this, run), ps)} :
    st.this.arpeggioTime # 0 /\ st.run.t >= st.this.arpeggioTime

\* Arpeggio handling.
ArpeggioStep(st) ==
  IF st.this.arpeggioTime # 0 /\ st.run.t >= st.this.arpeggioTime
  THEN [st EXCEPT !.this.arpeggioTime = 0,
                  !.this.period = FMul(@, st.this.arpeggioMultiplier)]
  ELSE st

\* Frequency sliding and the frequency cutoff.
SlideStep(st) ==
  LET mult == st.this.periodMult + st.this.periodMultSlide
      per  == FMul(st.this.period, mult)
  IN  IF per > st.this.periodMax
      THEN [st EXCEPT !.this.periodMult = mult,
                      !.this.period = st.this.periodMax,
                      !.exit = IF st.this.enableFrequencyCutoff THEN "break"
                               ELSE "none"]
      ELSE [st EXCEPT !.this.periodMult = mult, !.this.period = per]

\* iperiod = Math.floor(rfperiod), at least OVERSAMPLING.
IPeriod(rfperiod) ==
  IF rfperiod \div 1000 < OVERSAMPLING THEN OVERSAMPLING
  ELSE rfperiod \div 1000

\* Vibrato.
VibratoStep(st) ==
  IF st.exit # "none" THEN st
  ELSE IF st.this.vibratoAmplitude > 0
  THEN LET vibratoPhase == st.run.vibratoPhase + st.this.vibratoSpeed
       IN  [st EXCEPT
              !.run.vibratoPhase = vibratoPhase,
              !.iperiod =
                 IPeriod(FMul(st.this.period,
                              ONE + FMul(Sin(vibratoPhase),
                                         st.this.vibratoAmplitude)))]
  ELSE [st EXCEPT !.iperiod = IPeriod(st.this.period)]

\* The duty cycle's drift without the two clamps.
DutyStepNoClamp(st) ==
  IF st.exit # "none" THEN st
  ELSE [st EXCEPT !.this.dutyCycle = @ + st.this.dutyCycleSlide]

\* Square wave duty cycle.
DutyStep(st) ==
  LET d == st.this.dutyCycle + st.this.dutyCycleSlide
  IN  IF st.exit # "none" THEN st
      ELSE [st EXCEPT !.this.dutyCycle = IF d < 0 THEN 0
                                         ELSE IF d > ONE \div 2 THEN ONE \div 2
                                         ELSE d]

\* The envelope's test with the stage left one tick late, and one tick early.
EnvelopeAdvanceLate(elapsed, length) == elapsed > length + 1

EnvelopeAdvanceEarly(elapsed, length) == elapsed >= length

\* ++envelopeElapsed > this.envelopeLength[envelopeStage]
EnvelopeAdvance(elapsed, length) == elapsed > length

\* envVol for a stage of length len.  envelopeElapsed <= len here, so a
\* length of 0 makes envf 0 / 0.
EnvVol(stage, elapsed, len, punch) ==
  LET envf == IF len = 0 THEN NaN ELSE Ratio(elapsed, len)
  IN  IF stage = 0 THEN envf
      ELSE IF envf = NaN THEN NaN
      ELSE IF stage = 1 THEN ONE + FMul((ONE - envf) * 2, punch)
      ELSE ONE - envf

\* The volume envelope stepping over a stage of length 0 on the tick that
\* would enter it.
EnvelopeStepSkipping(st) ==
  LET adv   == EnvelopeAdvance(st.run.envelopeElapsed + 1,
                               st.this.envelopeLength[st.run.envelopeStage + 1])
      next  == st.run.envelopeStage + 1
      stage == IF ~adv THEN st.run.envelopeStage
               ELSE IF next <= 2 /\ st.this.envelopeLength[next + 1] = 0
               THEN next + 1
               ELSE next
  IN  IF st.exit # "none" THEN st
      ELSE IF ~adv
      THEN [st EXCEPT !.run.envelopeElapsed = @ + 1,
                      !.envVol = EnvVol(stage, st.run.envelopeElapsed + 1,
                                        st.this.envelopeLength[stage + 1],
                                        st.this.envelopePunch)]
      ELSE IF stage > 2
      THEN [st EXCEPT !.run.envelopeElapsed = 0,
                      !.run.envelopeStage = stage,
                      !.exit = "break"]
      ELSE [st EXCEPT !.run.envelopeElapsed = 0,
                      !.run.envelopeStage = stage,
                      !.envVol = EnvVol(stage, 0,
                                        st.this.envelopeLength[stage + 1],
                                        st.this.envelopePunch)]

\* Volume envelope.
EnvelopeStep(st) ==
  LET adv   == EnvelopeAdvance(st.run.envelopeElapsed + 1,
                               st.this.envelopeLength[st.run.envelopeStage + 1])
      stage == IF adv THEN st.run.envelopeStage + 1 ELSE st.run.envelopeStage
  IN  IF st.exit # "none" THEN st
      ELSE IF ~adv
      THEN [st EXCEPT !.run.envelopeElapsed = @ + 1,
                      !.envVol = EnvVol(stage, st.run.envelopeElapsed + 1,
                                        st.this.envelopeLength[stage + 1],
                                        st.this.envelopePunch)]
      ELSE IF stage > 2
      THEN [st EXCEPT !.run.envelopeElapsed = 0,
                      !.run.envelopeStage = stage,
                      !.exit = "break"]
      ELSE [st EXCEPT !.run.envelopeElapsed = 0,
                      !.run.envelopeStage = stage,
                      !.envVol = EnvVol(stage, 0,
                                        st.this.envelopeLength[stage + 1],
                                        st.this.envelopePunch)]

\* The phaser step with the tap index left as |floor(flangerOffset)|.
PhaserStepNoClamp(st) ==
  LET fo == st.this.flangerOffset + st.this.flangerOffsetSlide
      hp == FMul(st.this.flthp, st.this.flthp_d)
  IN  IF st.exit # "none" THEN st
      ELSE [st EXCEPT
              !.this.flangerOffset = fo,
              !.iphase = Abs(Floor(fo)),
              !.this.flthp = IF st.this.flthp_d = 0 THEN @
                             ELSE IF hp < 10 THEN 10
                             ELSE IF hp > 100000 THEN 100000
                             ELSE hp]

\* Phaser step and the high-pass cutoff's slide.
PhaserStep(st) ==
  LET fo == st.this.flangerOffset + st.this.flangerOffsetSlide
      hp == FMul(st.this.flthp, st.this.flthp_d)
  IN  IF st.exit # "none" THEN st
      ELSE [st EXCEPT
              !.this.flangerOffset = fo,
              !.iphase = IF Abs(Floor(fo)) > 1023 THEN 1023 ELSE Abs(Floor(fo)),
              !.this.flthp = IF st.this.flthp_d = 0 THEN @
                             ELSE IF hp < 10 THEN 10
                             ELSE IF hp > 100000 THEN 100000
                             ELSE hp]

\* phase++ and the wrap of the phase, which refills the noise buffer.
PhaseStep(st) ==
  IF st.run.phase + 1 < st.iperiod
  THEN [st EXCEPT !.run.phase = @ + 1]
  ELSE IF st.this.waveShape = NOISE
  THEN [st EXCEPT !.run.phase = (@ + 1) % st.iperiod,
                  !.run.noiseBuffer = FillNoise(st.run.seed, st.run.drawn),
                  !.run.drawn = @ + 32]
  ELSE [st EXCEPT !.run.phase = (@ + 1) % st.iperiod]

\* Waveform with the sine wave read from the noise buffer.
WaveformNoisySine(waveShape, phase, iperiod, dutyCycle, noiseBuffer) ==
  LET fp == Ratio(phase, iperiod)
  IN
  IF waveShape = SQUARE
  THEN (IF fp < dutyCycle THEN ONE \div 2 ELSE -(ONE \div 2))
  ELSE IF waveShape = SAWTOOTH
  THEN (IF fp < dutyCycle THEN Ratio(2 * fp, dutyCycle) - ONE
        ELSE ONE - Ratio(2 * (fp - dutyCycle), ONE - dutyCycle))
  ELSE noiseBuffer[(phase * 32) \div iperiod + 1]

\* What the Sawtooth branch divides by for the phase fraction fp.
SawtoothDivisor(fp, dutyCycle) ==
  IF fp < dutyCycle THEN dutyCycle ELSE ONE - dutyCycle

\* Base waveform, for the four wave types.
Waveform(waveShape, phase, iperiod, dutyCycle, noiseBuffer) ==
  LET fp == Ratio(phase, iperiod)
  IN
  IF waveShape = SQUARE
  THEN (IF fp < dutyCycle THEN ONE \div 2 ELSE -(ONE \div 2))
  ELSE IF waveShape = SAWTOOTH
  THEN (IF fp < dutyCycle THEN Ratio(2 * fp, dutyCycle) - ONE
        ELSE ONE - Ratio(2 * (fp - dutyCycle), ONE - dutyCycle))
  ELSE IF waveShape = SINE
  THEN Sin(FMul(fp, 2 * PI))
  ELSE noiseBuffer[(phase * 32) \div iperiod + 1]

\* Low-pass filter: the new fltw, fltdp and fltp.
LowPass(this, fltp, fltdp, subSample) ==
  LET w     == FMul(this.fltw, this.fltw_d)
      fltw  == IF w < 0 THEN 0 ELSE IF w > 100000 THEN 100000 ELSE w
      d     == fltdp + FMul(subSample - fltp, fltw)
      newdp == d - FMul(d, this.fltdmp)
  IN  IF this.enableLowPassFilter
      THEN [fltw |-> fltw, fltdp |-> newdp, fltp |-> fltp + newdp]
      ELSE [fltw |-> fltw, fltdp |-> 0, fltp |-> subSample]

\* High-pass filter: the new fltphp, with the low-pass filter's results lp
\* and pp the fltp from before them.
HighPass(fltphp, lp, pp, flthp) ==
  (fltphp + lp.fltp - pp) - FMul(fltphp + lp.fltp - pp, flthp)

\* Phaser and the accumulation of the sample, with the filters' results.
Accumulate(st, lp, fltphp) ==
  LET fb == FlangerWrite(st.run.flangerBuffer, st.run.ipp % 1024, fltphp)
  IN  [st EXCEPT
         !.this.fltw = lp.fltw,
         !.run.fltp = lp.fltp,
         !.run.fltdp = lp.fltdp,
         !.run.fltphp = fltphp,
         !.run.flangerBuffer = fb,
         !.run.ipp = (@ + 1) % 1024,
         !.sample =
            IF st.envVol = NaN THEN NaN
            ELSE NAdd(@, FMul(fltphp + FlangerRead(fb, (st.run.ipp - st.iphase
                                                         + 1024) % 1024),
                              st.envVol))]

\* The filters on the sub-sample of a pass.
Filter(st, subSample) ==
  Then(LowPass(st.this, st.run.fltp, st.run.fltdp, subSample),
       LAMBDA lp : Then(HighPass(st.run.fltphp, lp, st.run.fltp, st.this.flthp),
                        LAMBDA fltphp : Accumulate(st, lp, fltphp)))

\* One pass of the 8x oversampling loop, after phase++: a wave type that is
\* none of the four throws.
Dispatch(st) ==
  IF st.this.waveShape \in {SQUARE, SAWTOOTH, SINE, NOISE}
  THEN Then(Waveform(st.this.waveShape, st.run.phase, st.iperiod,
                     st.this.dutyCycle, st.run.noiseBuffer),
            LAMBDA subSample : Filter(st, subSample))
  ELSE [st EXCEPT !.exit = "throw"]

\* One pass, which an iteration that has ended does not make.
OversamplePass(st) ==
  IF st.exit # "none" THEN st ELSE Then(PhaseStep(st), Dispatch)

\* for (si = 0; si < OVERSAMPLING; ++si), from pass si on.
RECURSIVE OversampleLoop(_, _)
OversampleLoop(st, si) ==
  IF si >= OVERSAMPLING THEN st
  ELSE OversampleLoop(Then(st, OversamplePass), si + 1)

\* A quantization that pushes one byte whatever the sample size.
QuantizeOneByte(bitsPerChannel, sample) ==
  IF sample = NaN THEN [bytes |-> <<0>>, clips |-> 0]
  ELSE [bytes |-> <<((2 * (sample + ONE)) \div 15625) % 256>>, clips |-> 0]

\* A quantization that counts a clip only at the upper end of the range.
QuantizeClipHigh(bitsPerChannel, sample) ==
  IF bitsPerChannel = 8
  THEN IF sample = NaN THEN [bytes |-> <<NaN>>, clips |-> 0]
       ELSE LET q == (2 * (sample + ONE)) \div 15625
            IN  IF q > 255 THEN [bytes |-> <<255>>, clips |-> 1]
                ELSE IF q < 0 THEN [bytes |-> <<0>>, clips |-> 0]
                ELSE [bytes |-> <<q>>, clips |-> 0]
  ELSE IF sample = NaN THEN [bytes |-> <<0, 0>>, clips |-> 0]
       ELSE LET q == (sample \div 15625) * 512
                       + ((sample % 15625) * 512) \div 15625
                c == IF q >= 32768 THEN 32767
                     ELSE IF q < -32768 THEN -32768 ELSE q
            IN  [ bytes |-> <<c % 256, (c \div 256) % 256>>,
                  clips |-> IF q >= 32768 THEN 1 ELSE 0 ]

\* The quantization of one sample: the bytes pushed and the clips counted.
Quantize(bitsPerChannel, sample) ==
  IF bitsPerChannel = 8
  THEN IF sample = NaN THEN [bytes |-> <<NaN>>, clips |-> 0]
       ELSE LET q == (2 * (sample + ONE)) \div 15625
            IN  IF q > 255 THEN [bytes |-> <<255>>, clips |-> 1]
                ELSE IF q < 0 THEN [bytes |-> <<0>>, clips |-> 1]
                ELSE [bytes |-> <<q>>, clips |-> 0]
  ELSE IF sample = NaN THEN [bytes |-> <<0, 0>>, clips |-> 0]
       ELSE LET q == (sample \div 15625) * 512
                       + ((sample % 15625) * 512) \div 15625
                c == IF q >= 32768 THEN 32767
                     ELSE IF q < -32768 THEN -32768 ELSE q
            IN  [ bytes |-> <<c % 256, (c \div 256) % 256>>,
                  clips |-> IF c = q THEN 0 ELSE 1 ]

\* The scaling of the summed sample, pushed on normalized.
Scale(sampleSum, summands, gain) ==
  NMul(NMul(NDivInt(NDivInt(sampleSum, summands), OVERSAMPLING), masterVolume),
       gain)

\* normalized.push(sample) and the pushes on buffer.
Push(st, sample, q) ==
  [st EXCEPT !.run.sampleSum = 0,
             !.run.numSummed = 0,
             !.run.normalized = Append(@, sample),
             !.run.buffer = @ \o q.bytes,
             !.run.numClipped = @ + q.clips,
             !.run.t = @ + 1]

\* An emit step that pushes a sample on every tick.
EmitStepEveryTick(st) ==
  LET sum == NAdd(st.run.sampleSum, st.sample)
  IN  IF st.exit # "none" THEN st
      ELSE Push(st, Scale(sum, st.run.summands, st.this.gain),
                Quantize(st.this.bitsPerChannel,
                         Scale(sum, st.run.summands, st.this.gain)))

\* The accumulation for the sample rate, and the sample it emits; ++t.
EmitStep(st) ==
  LET sum == NAdd(st.run.sampleSum, st.sample)
  IN  IF st.exit # "none" THEN st
      ELSE IF st.run.numSummed + 1 < st.run.summands
      THEN [st EXCEPT !.run.sampleSum = sum,
                      !.run.numSummed = @ + 1,
                      !.run.t = @ + 1]
      ELSE Push(st, Scale(sum, st.run.summands, st.this.gain),
                Quantize(st.this.bitsPerChannel,
                         Scale(sum, st.run.summands, st.this.gain)))

\* One iteration of the loop, from the engine fields this, the locals run
\* and the parameters ps that this.parameters refers to.  The fields and
\* locals of the result are those written up to where the iteration ended.
TickStep(this, run, ps) ==
  Then(Then(Then(Then(Then(Then(Then(Then(Then(TickState(this, run),
    LAMBDA st : RepeatStep(st, ps)),
    ArpeggioStep),
    SlideStep),
    VibratoStep),
    DutyStep),
    EnvelopeStep),
    PhaserStep),
    LAMBDA st : OversampleLoop(st, 0)),
    EmitStep)

\* The ticks getRawBuffer is followed for when it is run as one call.
TickCap == 32768

\* Up to n iterations of the loop, one after another, from st = [this, run,
\* exit], stopping at the first that leaves the loop.
RECURSIVE RunTicks(_, _, _)
RunTicks(st, ps, n) ==
  IF st.exit # "none" THEN st
  ELSE IF n = 1 THEN TickStep(st.this, st.run, ps)
  ELSE LET left == RunTicks(st, ps, n \div 2)
       IN  IF left.exit # "none" THEN left
           ELSE RunTicks(left, ps, n - n \div 2)

\* What getRawBuffer returns after the loop.
RenderResult(run) ==
  [ buffer |-> run.buffer, normalized |-> run.normalized,
    clipped |-> run.numClipped ]

\* sfx = new SoundEffect(ps), then the object ps refers to comes to hold
\* later, then sfx.getRawBuffer() as one call with the random stream seeded
\* by seed: how the call ended, after how many iterations, and what it
\* returned.  The engine keeps the reference (this.parameters = ps), so the
\* loop's initForRepeat reads later.
getRawBufferAfter(ps, later, seed) ==
  Then(Then(init(NewSoundEffect, ps),
            LAMBDA this : RunTicks(TickState(this, NewLocals(this, seed)),
                                   later, TickCap)),
       LAMBDA end : [ exit   |-> end.exit,
                      ticks  |-> end.run.t + 1,
                      result |-> RenderResult(end.run) ])

\* new SoundEffect(ps).getRawBuffer(), ps left as it is.
getRawBuffer(ps, seed) == getRawBufferAfter(ps, ps, seed)

(***************************************************************************)
(* riffwave.ts: FastBase64 and RiffWave                                    *)
(***************************************************************************)
\* FastBase64.chars, one character per entry; chars[i] of the code is
\* chars[i + 1] here.
chars ==
  << "A", "B", "C", "D", "E", "F", "G", "H", "I", "J", "K", "L", "M",
     "N", "O", "P", "Q", "R", "S", "T", "U", "V", "W", "X", "Y", "Z",
     "a", "b", "c", "d", "e", "f", "g", "h", "i", "j", "k", "l", "m",
     "n", "o", "p", "q", "r", "s", "t", "u", "v", "w", "x", "y", "z",
     "0", "1", "2", "3", "4", "5", "6", "7", "8", "9", "+", "/", "=" >>

\* An operand of a bit operator: NaN and undefined (an index past the end of
\* src) count as 0.
ToInt32(src, i) ==
  IF i > Len(src) THEN 0 ELSE IF src[i] = NaN THEN 0 ELSE src[i]

\* FastBase64.encLookup[i], the two characters chars[i >> 6], chars[i & 0x3F].
encLookup(i) == << chars[(i \div 64) + 1], chars[(i % 64) + 1] >>

\* The four characters the while loop appends for the three bytes that
\* start at src[i] (i counts from 1).
EncodeGroup(src, i) ==
  LET n == ToInt32(src, i) * 65536 + ToInt32(src, i + 1) * 256
             + ToInt32(src, i + 2)
  IN  encLookup(n \div 4096) \o encLookup(n % 4096)

\* What Encode appends after the loop for the len bytes (1 or 2) left at
\* src[i].
EncodeRest(src, i, len) ==
  LET n1 == (ToInt32(src, i) % 256) \div 4
      n2 == (ToInt32(src, i) % 4) * 16
              + (IF len > 1 THEN (ToInt32(src, i + 1) % 256) \div 16 ELSE 0)
      n3 == (ToInt32(src, i + 1) % 16) * 4
              + (ToInt32(src, i + 2) % 256) \div 64
  IN  IF len = 2 THEN << chars[n1 + 1], chars[n2 + 1], chars[n3 + 1], "=" >>
      ELSE << chars[n1 + 1], chars[n2 + 1], "=", "=" >>

\* FastBase64.Encode: the string, one character per entry.
Encode(src) ==
  LET groups == Len(src) \div 3
      rest   == Len(src) % 3
      full   == [ k \in 1..(4 * groups) |->
                    EncodeGroup(src, 3 * ((k - 1) \div 4) + 1)[((k - 1) % 4) + 1] ]
  IN  IF rest = 0 THEN full
      ELSE full \o EncodeRest(src, 3 * groups + 1, rest)

\* 'data:audio/wav;base64,', one character per entry.
DataURIPrefix ==
  << "d", "a", "t", "a", ":", "a", "u", "d", "i", "o", "/", "w", "a", "v",
     ";", "b", "a", "s", "e", "6", "4", "," >>

u32ToArray(i) ==
  << i % 256, (i \div 256) % 256, (i \div 65536) % 256,
     (i \div 16777216) % 256 >>

u16ToArray(i) == << i % 256, (i \div 256) % 256 >>

\* new RiffWave(): the fields of the object before any Make.
NewRiffWave ==
  [ data    |-> << >>,
    wav     |-> << >>,
    dataURI |-> << >>,
    header  |-> [ chunkId       |-> << 82, 73, 70, 70 >>,
                  chunkSize     |-> 0,
                  format        |-> << 87, 65, 86, 69 >>,
                  subChunk1Id   |-> << 102, 109, 116, 32 >>,
                  subChunk1Size |-> 16,
                  audioFormat   |-> 1,
                  numChannels   |-> 1,
                  sampleRate    |-> 8000,
                  byteRate      |-> 0,
                  blockAlign    |-> 0,
                  bitsPerSample |-> 8,
                  subChunk2Id   |-> << 100, 97, 116, 97 >>,
                  subChunk2Size |-> 0 ] ]

\* The header of Make with the two sizes left as they were.
MakeHeaderStale(header, data) ==
  [ header EXCEPT
      !.byteRate   = (header.sampleRate * header.numChannels
                        * header.bitsPerSample) \div 8,
      !.blockAlign = (header.numChannels * header.bitsPerSample) \div 8 ]

\* The header as Make leaves it.
MakeHeader(header, data) ==
  [ header EXCEPT
      !.byteRate      = (header.sampleRate * header.numChannels
                           * header.bitsPerSample) \div 8,
      !.blockAlign    = (header.numChannels * header.bitsPerSample) \div 8,
      !.subChunk2Size = Len(data),
      !.chunkSize     = 36 + Len(data) ]

\* The bytes Make concatenates into wav.
WavBytes(h, data) ==
  h.chunkId \o u32ToArray(h.chunkSize) \o h.format \o h.subChunk1Id
    \o u32ToArray(h.subChunk1Size) \o u16ToArray(h.audioFormat)
    \o u16ToArray(h.numChannels) \o u32ToArray(h.sampleRate)
    \o u32ToArray(h.byteRate) \o u16ToArray(h.blockAlign)
    \o u16ToArray(h.bitsPerSample) \o h.subChunk2Id
    \o u32ToArray(h.subChunk2Size) \o data

\* RiffWave.Make(data) on the object this.
Make(this, data) ==
  LET h   == MakeHeader(this.header, data)
      wav == WavBytes(h, data)
  IN  [ data |-> data, wav |-> wav,
        dataURI |-> DataURIPrefix \o Encode(wav), header |-> h ]

\* new RiffWave(data): an array, empty or not, is truthy, so Make runs.
RiffWave(data) == Make(NewRiffWave, data)

(***************************************************************************)
(* Inputs of the codec                                                     *)
(***************************************************************************)
\* How far below 2^-126 the smallest parameter magnitudes tried go.
MaxTiny == 2

\* The longest string, not made by toB58, that is handed to fromB58.
MaxTokenLen == 2

paramsSigned ==
  { "p_freq_ramp", "p_freq_dramp", "p_arp_mod", "p_duty_ramp",
    "p_pha_offset", "p_pha_ramp", "p_lpf_ramp", "p_hpf_ramp" }

\* Values of the documented range [0, 1] of an unsigned field: 0, 1, decimal
\* literals, the smallest normal binary32 magnitude 2^-126 and magnitudes
\* below it.
UnsignedValues ==
  { Zero, Dec(1, 1), Dec(1, 2), Dec(3, 10), Dec(4, 1000), Fin(1, 1, -126) }
    \cup { Fin(1, 1, -126 - i) : i \in 1..MaxTiny }

\* Values of the documented range [-1, 1] of a signed field.
SignedValues ==
  UnsignedValues \cup { Dec(-1, 1), Dec(-35, 100), Fin(-1, 1, -126) }
    \cup { Fin(-1, 1, -126 - i) : i \in 1..MaxTiny }

FieldValues(p) == IF p \in paramsSigned THEN SignedValues ELSE UnsignedValues

\* A parameter set with wave_type 0 and every p_* field 0.
ZeroParams ==
  [ p \in DOMAIN DefaultParams |->
      IF p \in PFields THEN Zero
      ELSE IF p = "wave_type" THEN 0 ELSE DefaultParams[p] ]

\* A parameter set with a non-zero value in every field, negative in the
\* signed ones.
MixedParams ==
  [ p \in DOMAIN DefaultParams |->
      IF p \in paramsSigned THEN Dec(-35, 100)
      ELSE IF p \in PFields THEN Dec(3, 10)
      ELSE IF p = "wave_type" THEN NOISE ELSE DefaultParams[p] ]

\* The parameter sets encoded: a base set, or a base set with one field
\* changed within its range.
CodecParamSets ==
  LET Bases == {DefaultParams, ZeroParams, MixedParams}
  IN  Bases
        \cup { [b EXCEPT !.wave_type = w] :
                 b \in {DefaultParams, ZeroParams}, w \in SQUARE..NOISE }
        \cup UNION { { [b EXCEPT ![p] = v] : v \in FieldValues(p) } :
                       b \in {DefaultParams, ZeroParams}, p \in PFields }

\* Characters of strings handed to fromB58: three of the alphabet (the first,
\* the second and the last) and four that the alphabet leaves out.
InvalidChars == {"0", "O", "I", "l"}

TokenChars == {"1", "2", "z"} \cup InvalidChars

RECURSIVE StringsUpTo(_)
StringsUpTo(n) ==
  IF n = 0 THEN { <<>> }
  ELSE LET S == StringsUpTo(n - 1)
       IN  S \cup { Append(t, c) : t \in {u \in S : Len(u) = n - 1}, c \in TokenChars }

\* The length of a string of the alphabet's last symbol that decodes to
\* more than 89 bytes (58^123 > 256^89).
LongTokenLen == 123

\* Strings of the alphabet that decode to more than 89 bytes.
LongTokens == { [i \in 1..LongTokenLen |-> "z"] }

\* Whether a string has a character outside the 58-symbol alphabet.
HasInvalidChar(s) == \E i \in 1..Len(s) : IndexOf(b58alphabet, s[i]) < 0

(***************************************************************************)
(* Inputs of the render engine                                             *)
(***************************************************************************)
\* The longest envelope stage, in ticks, of the short parameter sets.
MaxStageTicks == 2

\* EnvelopeValues[n + 1] is a stage parameter p with floor(p * p * 100000) = n.
EnvelopeValues ==
  << Zero, Dec(4, 1000), Dec(5, 1000), Dec(6, 1000), Dec(7, 1000) >>

\* The seeds of the random streams tried.
Seeds == {1, 40000}

\* base with the fields of the record o set to o's values.
Override(base, o) ==
  [ f \in DOMAIN base |-> IF f \in DOMAIN o THEN o[f] ELSE base[f] ]

\* Settings of the fields other than the envelope's: a frequency limit
\* that the initial period is above (1098.9 > 398.4), and one that the
\* period slides above on the third tick (156.0 * 1.01^3 > 159.9).
CutoffAtOnce == [p_freq_limit |-> Dec(1, 2)]

CutoffLater ==
  [ p_base_freq  |-> Dec(8, 10),
    p_freq_limit |-> Dec(79, 100),
    p_freq_ramp  |-> Dec(-1, 1) ]

\* Every effect switched on, over an envelope of 1, 40 and 1 ticks: repeat
\* every 32 ticks, arpeggio at tick 34, vibrato, both filters, phaser, slides.
Effects ==
  [ p_env_attack    |-> Dec(4, 1000),
    p_env_sustain   |-> Dec(2, 100),
    p_env_decay     |-> Dec(4, 1000),
    p_env_punch     |-> Dec(1, 2),
    p_freq_ramp     |-> Dec(1, 2),
    p_freq_dramp    |-> Dec(-1, 1),
    p_vib_strength  |-> Dec(1, 2),
    p_vib_speed     |-> Dec(1, 2),
    p_arp_mod       |-> Dec(1, 2),
    p_arp_speed     |-> Dec(99, 100),
    p_duty          |-> Dec(1, 2),
    p_duty_ramp     |-> Dec(-1, 1),
    p_repeat_speed  |-> Dec(1, 1),
    p_pha_offset    |-> Dec(-1, 10),
    p_pha_ramp      |-> Dec(1, 2),
    p_lpf_freq      |-> Dec(1, 2),
    p_lpf_ramp      |-> Dec(-1, 2),
    p_lpf_resonance |-> Dec(1, 2),
    p_hpf_freq      |-> Dec(1, 2),
    p_hpf_ramp      |-> Dec(1, 2),
    sound_vol       |-> Dec(1, 1) ]

\* The wave types tried: the four of the engine and one that is none of them.
WaveTypes == SQUARE..(NOISE + 1)

\* Sample rate and sample size.
Formats ==
  { [sample_rate |-> 44100, sample_size |-> 8],
    [sample_rate |-> 44100, sample_size |-> 16],
    [sample_rate |-> 22050, sample_size |-> 8],
    [sample_rate |-> 22050, sample_size |-> 16] }

\* The envelopes of the short parameter sets: every stage of 0 to
\* MaxStageTicks ticks.
ShortEnvelopes ==
  { [ p_env_attack  |-> EnvelopeValues[a + 1],
      p_env_sustain |-> EnvelopeValues[s + 1],
      p_env_decay   |-> EnvelopeValues[d + 1] ] :
      a \in 0..MaxStageTicks, s \in 0..MaxStageTicks, d \in 0..MaxStageTicks }

\* The envelopes with the three stages equally long.
EvenEnvelopes == { env \in ShortEnvelopes :
                     /\ env.p_env_attack = env.p_env_sustain
                     /\ env.p_env_sustain = env.p_env_decay }

\* Every effect on over a sustain of 67 ticks: the repeat boundaries at
\* ticks 31 and 63 lie on both sides of the arpeggio's tick 34.
LongEffects == Override(Effects, [p_env_sustain |-> Dec(26, 1000)])

\* Duty settings whose drift runs into a clamp (0.5 drifting up, 0 drifting
\* down), and p_duty values outside [0, 1], which initForRepeat turns into
\* a duty cycle below 0 and above 0.5.
DutyEdges ==
  { [p_duty |-> Zero,       p_duty_ramp |-> Dec(-1, 1)],
    [p_duty |-> Dec(1, 1),  p_duty_ramp |-> Dec(1, 1)],
    [p_duty |-> Dec(2, 1),  p_duty_ramp |-> Zero],
    [p_duty |-> Dec(-1, 1), p_duty_ramp |-> Zero] }

\* Square and sawtooth renders with every effect on and a duty setting of
\* DutyEdges.
DutySets ==
  { [Override(DefaultParams, Override(Effects, duty)) EXCEPT !.wave_type = w] :
      duty \in DutyEdges, w \in {SQUARE, SAWTOOTH} }

\* Square renders of 138 ticks (more than the 128 that fill the 1024-entry
\* delay line) with the phaser offset at either end of its range and a
\* drift that carries it past 1023 in either direction.
PhaserSets ==
  { Override(DefaultParams,
             [ p_env_attack  |-> Dec(4, 1000),
               p_env_sustain |-> Dec(37, 1000),
               p_env_decay   |-> Dec(4, 1000),
               p_pha_offset  |-> off,
               p_pha_ramp    |-> ramp ]) :
      off \in {Dec(1, 1), Dec(-1, 1)}, ramp \in {Dec(1, 1), Dec(-1, 1)} }

\* Renders with every effect on at 11025 Hz and 5512 Hz: 4 and 8 ticks to
\* an output sample, over 44 completed ticks.
DecimationSets ==
  { Override(Override(DefaultParams, Effects),
             [sample_rate |-> rate, sample_size |-> 8]) :
      rate \in {11025, 5512} }

\* The parameter sets rendered tick by tick: every short envelope with no
\* frequency limit, the even ones with a limit, and the two with every
\* effect on, each with every wave type and format.
RenderParamSets ==
  LET Settings == { Override(DefaultParams, env) : env \in ShortEnvelopes }
                    \cup { Override(Override(DefaultParams, env), set) :
                             env \in EvenEnvelopes,
                             set \in {CutoffAtOnce, CutoffLater} }
                    \cup { Override(DefaultParams, Effects),
                           Override(DefaultParams, LongEffects) }
  IN  { [Override(ps, fmt) EXCEPT !.wave_type = w] :
          ps \in Settings, fmt \in Formats, w \in WaveTypes }
        \cup DutySets \cup PhaserSets \cup DecimationSets

\* Fields a caller assigns on the parameter object after it has made the
\* engine from it: one read by initForRepeat, one read by init only.
LaterChanges == { [p_base_freq |-> Dec(1, 2)], [p_env_sustain |-> Zero] }

\* The Noise-wave parameter set with p_repeat_speed = 0.5, the other fields
\* at their defaults (a sustain of 9000 ticks and a decay of 16000).
NoiseRepeat ==
  [DefaultParams EXCEPT !.wave_type = NOISE, !.p_repeat_speed = Dec(1, 2)]

\* The parameter sets encoded, decoded and rendered as whole calls:
\* NoiseRepeat, and NoiseRepeat with each short envelope.
RoundTripParamSets ==
  {NoiseRepeat} \cup { Override(NoiseRepeat, env) : env \in ShortEnvelopes }

(***************************************************************************)
(* State                                                                   *)
(***************************************************************************)
VARIABLES
  params,    \* the Params object that is encoded and rendered
  token,     \* the string last made by toB58, or handed in by the caller
  target,    \* the Params object fromB58 is called on
  tokenFrom, \* where token comes from: "toB58", "caller" or "damaged"
  lastOp,    \* the codec call made last: "new", "toB58", "corrupt", "fromB58"
  thrown,    \* whether that call threw
  sfx,       \* the fields of the SoundEffect made from params
  run,       \* the locals of its getRawBuffer call, as the loop last left them
  pc,        \* "new" (no engine yet), "ready" (constructed), "running" (in
             \* the loop), "done" (getRawBuffer returned), "error" (it threw)
  results,   \* how the getRawBuffer calls made so far ended, in order
  struct,    \* the mapping last handed to fromJSON by a caller
  b58,       \* the byte array handed to base58Encode alone, and the bytes
             \* base58DecodeRaw returned for its encoding
  wave       \* the fields of the RiffWave object the caller holds

codecVars == <<params, token, target, tokenFrom, lastOp, thrown, struct, b58>>

renderVars == <<sfx, run, pc, results, wave>>

vars ==
  << params, token, target, tokenFrom, lastOp, thrown, struct, b58,
     sfx, run, pc, results, wave >>

\* No engine has been constructed and getRawBuffer has not been called.
NoEngine ==
  /\ sfx = NewSoundEffect
  /\ run = << >>
  /\ pc = "new"
  /\ results = << >>
  /\ wave = NewRiffWave

\* A mapping without keys: no mapping has been handed to fromJSON yet.
NoStruct == << >>

\* base58Encode and base58DecodeRaw have not been called on their own.
NoBytes == [data |-> << >>, decoded |-> << >>]

\* No codec call has been made.
NoCodecCall ==
  /\ token = << >>
  /\ target = DefaultParams
  /\ tokenFrom = "caller"
  /\ lastOp = "new"
  /\ thrown = FALSE
  /\ struct = NoStruct
  /\ b58 = NoBytes

(***************************************************************************)
(* The codec's operations                                                  *)
(***************************************************************************)
\* A caller holds a parameter set and no token yet, or holds a string that
\* toB58 did not make; the object to decode into is a fresh Params.
InitCodec ==
  /\ \/ params \in CodecParamSets /\ token = <<>>
     \/ params = DefaultParams /\ token \in StringsUpTo(MaxTokenLen) \ { <<>> }
     \/ params = DefaultParams /\ token \in LongTokens
  /\ target = DefaultParams
  /\ tokenFrom = "caller"
  /\ lastOp = "new"
  /\ thrown = FALSE
  /\ struct = NoStruct
  /\ b58 = NoBytes
  /\ NoEngine

\* token = params.toB58()
ToB58 ==
  /\ lastOp = "new"
  /\ token = <<>>
  /\ token' = toB58(params)
  /\ tokenFrom' = "toB58"
  /\ lastOp' = "toB58"
  /\ thrown' = FALSE
  /\ UNCHANGED <<params, target, struct, b58>>
  /\ UNCHANGED renderVars

\* The caller's string is damaged: one character, the first or the last,
\* is replaced by one the alphabet leaves out.
Corrupt ==
  /\ lastOp = "fromB58"
  /\ ~thrown
  /\ Len(token) > 0
  /\ \E i \in {1, Len(token)} :
       token' = [token EXCEPT ![i] = IF i = 1 THEN "0" ELSE "l"]
  /\ tokenFrom' = "damaged"
  /\ lastOp' = "corrupt"
  /\ UNCHANGED <<params, target, thrown, struct, b58>>
  /\ UNCHANGED renderVars

\* target.fromB58(token)
FromB58 ==
  /\ lastOp \in {"new", "toB58", "corrupt"}
  /\ LET r == fromB58(target, token)
     IN  /\ target' = r.this
         /\ thrown' = ~r.ok
  /\ lastOp' = "fromB58"
  /\ UNCHANGED <<params, token, tokenFrom, struct, b58>>
  /\ UNCHANGED renderVars

NextCodec == ToB58 \/ Corrupt \/ FromB58

SpecCodec == InitCodec /\ [][NextCodec]_vars

(***************************************************************************)
(* base58Encode and base58DecodeRaw on byte arrays of any length           *)
(***************************************************************************)
\* The longest byte array encoded.
MaxBytes == 3

\* The bytes the arrays are made of: the least and the greatest byte and
\* those around the base.
ByteValues == {0, 1, 57, 58, 255}

\* The byte arrays of up to n bytes.
ByteArrays(n) == UNION { [1..k -> ByteValues] : k \in 0..n }

\* A caller holds a byte array.
InitBase58 ==
  /\ params = DefaultParams
  /\ token = << >>
  /\ target = DefaultParams
  /\ tokenFrom = "caller"
  /\ lastOp = "new"
  /\ thrown = FALSE
  /\ struct = NoStruct
  /\ \E data \in ByteArrays(MaxBytes) : b58 = [data |-> data, decoded |-> << >>]
  /\ NoEngine

\* token = base58Encode(data)
Base58Encode ==
  /\ lastOp = "new"
  /\ token' = base58Encode(b58.data)
  /\ tokenFrom' = "base58Encode"
  /\ lastOp' = "base58Encode"
  /\ UNCHANGED <<params, target, thrown, struct, b58>>
  /\ UNCHANGED renderVars

\* decoded = base58DecodeRaw(token, b58alphabet)
Base58DecodeRaw ==
  /\ lastOp = "base58Encode"
  /\ \E r \in {base58DecodeRaw(token, b58alphabet)} :
       /\ b58' = [b58 EXCEPT !.decoded = r.bytes]
       /\ thrown' = ~r.ok
  /\ lastOp' = "base58DecodeRaw"
  /\ UNCHANGED <<params, token, target, tokenFrom, struct>>
  /\ UNCHANGED renderVars

NextBase58 == Base58Encode \/ Base58DecodeRaw

SpecBase58 == InitBase58 /\ [][NextBase58]_vars

(***************************************************************************)
(* The codec on numbers that binary32 cannot hold                          *)
(***************************************************************************)
\* Numbers a caller may store in a field: NaN, the infinities, and m * 2^e
\* for m in {1, 3/2}, either sign, and e around both ends of [-126, 127].
PackValues ==
  { NaNNum, Inf(1), Inf(-1) }
    \cup { Fin(sg * m, 2, e) :
             sg \in {1, -1}, m \in {2, 3},
             e \in ((-126 - MaxTiny)..(-125)) \cup (126..129) }

\* The class defaults with one field, unsigned or signed, set to such a
\* number.
PackParamSets ==
  { [DefaultParams EXCEPT ![p] = v] :
      p \in {"p_base_freq", "p_hpf_ramp"}, v \in PackValues }

\* 32-bit patterns whose exponent field is 0xFF, as signed 32-bit values.
PackPatterns ==
  { assembleFloat(sg, 255, m) : sg \in {0, 1}, m \in {0, 1, 4919, 8388607} }

\* The token of 89 bytes that are 0 but for the pattern w in the bytes of
\* the first p_* field, least-significant byte first.
PatternToken(w) ==
  base58Encode(<< 0, w % 256, (w \div 256) % 256, (w \div 65536) % 256,
                  (w \div 16777216) % 256 >> \o [i \in 1..84 |-> 0])

\* A caller holds a parameter set with such a number and no token yet, or
\* a token carrying such a pattern.
InitPack ==
  /\ \/ params \in PackParamSets /\ token = <<>>
     \/ params = DefaultParams /\ token \in {PatternToken(w) : w \in PackPatterns}
  /\ target = DefaultParams
  /\ tokenFrom = "caller"
  /\ lastOp = "new"
  /\ thrown = FALSE
  /\ struct = NoStruct
  /\ b58 = NoBytes
  /\ NoEngine

SpecPack == InitPack /\ [][NextCodec]_vars

(***************************************************************************)
(* Params.fromJSON called with mappings                                    *)
(***************************************************************************)
\* The values a mapping may hold under a key, in a row; "volume" is not a
\* field of the ParameterSet.
JSONValues(k) ==
  IF k = "wave_type" THEN << SAWTOOTH, NOISE >>
  ELSE IF k = "p_env_sustain" THEN << Zero, Dec(1, 10) >>
  ELSE IF k = "p_base_freq" THEN << Dec(1, 2) >>
  ELSE IF k = "sound_vol" THEN << Dec(1, 4) >>
  ELSE << Dec(1, 1) >>

JSONKeys == {"wave_type", "p_env_sustain", "p_base_freq", "sound_vol", "volume"}

\* The mappings handed to fromJSON: any of the keys, each with one of its
\* values (pick[k] = 0 leaves the key k out).
JSONStructs ==
  { [ k \in { j \in JSONKeys : pick[j] # 0 } |-> JSONValues(k)[pick[k]] ] :
      pick \in { f \in [JSONKeys -> 0..2] :
                   \A k \in JSONKeys : f[k] <= Len(JSONValues(k)) } }

\* A caller holds a fresh Params.
InitJSON ==
  /\ params = DefaultParams
  /\ NoCodecCall
  /\ NoEngine

\* target.fromJSON(struct)
FromJSON ==
  /\ lastOp \in {"new", "fromJSON"}
  /\ \E s \in JSONStructs :
       /\ target' = fromJSON(target, s)
       /\ struct' = s
  /\ lastOp' = "fromJSON"
  /\ UNCHANGED <<params, token, tokenFrom, thrown, b58>>
  /\ UNCHANGED renderVars

NextJSON == FromJSON

SpecJSON == InitJSON /\ [][NextJSON]_vars

(***************************************************************************)
(* The render engine's operations, tick by tick                            *)
(***************************************************************************)
\* How a getRawBuffer call on the engine made from the object named by of
\* ended: exit is "break" when it returned result, "throw" when it threw.
Outcome(of, exit, ticks, locals) ==
  [ of |-> of, exit |-> exit, ticks |-> ticks, result |-> RenderResult(locals) ]

\* A caller holds a parameter set.
InitRender ==
  /\ params \in RenderParamSets
  /\ NoCodecCall
  /\ NoEngine

\* sfx = new SoundEffect(params)
Construct ==
  /\ pc = "new"
  /\ sfx' = init(sfx, params)
  /\ pc' = "ready"
  /\ UNCHANGED <<run, results, wave>>
  /\ UNCHANGED codecVars

\* sfx.getRawBuffer() is called: the locals are set up, the noise buffer is
\* filled from the random stream.
EnterGetRawBuffer ==
  /\ pc = "ready"
  /\ \E seed \in Seeds : run' = NewLocals(sfx, seed)
  /\ pc' = "running"
  /\ UNCHANGED <<sfx, results, wave>>
  /\ UNCHANGED codecVars

\* One iteration of the loop; the iteration that leaves the loop also
\* returns (or throws).
Tick ==
  /\ pc = "running"
  /\ \E r \in {TickStep(sfx, run, params)} :
         /\ sfx' = r.this
         /\ run' = r.run
         /\ pc' = IF r.exit = "none" THEN "running"
                  ELSE IF r.exit = "break" THEN "done" ELSE "error"
         /\ results' = IF r.exit = "none" THEN results
                       ELSE Append(results,
                                   Outcome("params", r.exit, r.run.t + 1, r.run))
  /\ wave' = wave
  /\ UNCHANGED codecVars

NextRender == Construct \/ EnterGetRawBuffer \/ Tick

SpecRender == InitRender /\ [][NextRender]_vars

\* The loop is not suspended for ever: JavaScript runs the call to its end.
SpecRenderLive == SpecRender /\ WF_vars(Tick)

(***************************************************************************)
(* RiffWave objects made from byte arrays                                  *)
(***************************************************************************)
\* The longest data array handed to Make.
MaxDataLen == 2

\* Entries of the arrays: bytes, and the NaN an 8-bit render can hold.
DataValues == {0, 255, NaN}

WaveDatas == UNION { [1..n -> DataValues] : n \in 0..MaxDataLen }

\* The sample rates and sample sizes generate() writes into a header.
HeaderFormats == {44100, 22050, 11025, 5512} \X {8, 16}

\* A caller holds new RiffWave().
InitWave ==
  /\ params = DefaultParams
  /\ NoCodecCall
  /\ NoEngine

\* wave = new RiffWave(data)
ConstructWave ==
  /\ lastOp = "new"
  /\ \E data \in WaveDatas : wave' = RiffWave(data)
  /\ lastOp' = "Make"
  /\ UNCHANGED <<params, token, target, tokenFrom, thrown, struct, b58>>
  /\ UNCHANGED <<sfx, run, pc, results>>

\* wave.header.sampleRate = ...; wave.header.bitsPerSample = ...
SetFormat ==
  /\ \E f \in HeaderFormats :
       wave' = [wave EXCEPT !.header.sampleRate = f[1],
                            !.header.bitsPerSample = f[2]]
  /\ lastOp' = "header"
  /\ UNCHANGED <<params, token, target, tokenFrom, thrown, struct, b58>>
  /\ UNCHANGED <<sfx, run, pc, results>>

\* wave.Make(data)
MakeWave ==
  /\ \E data \in WaveDatas : wave' = Make(wave, data)
  /\ lastOp' = "Make"
  /\ UNCHANGED <<params, token, target, tokenFrom, thrown, struct, b58>>
  /\ UNCHANGED <<sfx, run, pc, results>>

NextWave == ConstructWave \/ SetFormat \/ MakeWave

SpecWave == InitWave /\ [][NextWave]_vars

(***************************************************************************)
(* The pickupCoin preset rendered by generate                              *)
(***************************************************************************)
\* The random streams pickupCoin draws from: one whose second value (the
\* sustain draw) is 0 and whose fifth makes rnd(1) 0, one whose fifth value
\* is 1/2, the least that makes rnd(1) 1.
CoinSeeds == {65535, 32764, 40000}

\* A caller holds a fresh Params.
InitCoin ==
  /\ params = DefaultParams
  /\ NoCodecCall
  /\ NoEngine

\* params.pickupCoin()
PickupCoin ==
  /\ lastOp = "new"
  /\ \E seed \in CoinSeeds : params' = pickupCoin(params, seed)
  /\ lastOp' = "pickupCoin"
  /\ UNCHANGED <<token, target, tokenFrom, thrown, struct, b58>>
  /\ UNCHANGED renderVars

\* sfx = new SoundEffect(params), once the preset is set.
ConstructCoin == lastOp = "pickupCoin" /\ Construct

\* generate() after getRawBuffer has returned: a new RiffWave gets the
\* engine's sample rate and sample size and is made from rendered.buffer.
Generate ==
  /\ pc = "done"
  /\ wave = NewRiffWave
  /\ \E rendered \in {results[Len(results)].result} :
       wave' = [ clipping |-> rendered.clipped, buffer |-> rendered.normalized ]
                 @@ Make([wave EXCEPT !.header.sampleRate = sfx.sampleRate,
                                      !.header.bitsPerSample = sfx.bitsPerChannel],
                         rendered.buffer)
  /\ UNCHANGED <<sfx, run, pc, results>>
  /\ UNCHANGED codecVars

NextCoin == PickupCoin \/ ConstructCoin \/ EnterGetRawBuffer \/ Tick \/ Generate

SpecCoin == InitCoin /\ [][NextCoin]_vars

(***************************************************************************)
(* Token round trip and re-render, each render as one call                 *)
(***************************************************************************)
\* A caller holds a parameter set; it encodes it, decodes the token into a
\* fresh Params, then renders the original and the decoded set.
\* The random streams of the renders that follow a round trip.
RoundTripSeeds == {1}

InitRoundTrip ==
  /\ params \in RoundTripParamSets
  /\ NoCodecCall
  /\ NoEngine

\* The token made by toB58 has been decoded without an error.
RoundTripDone == lastOp = "fromB58" /\ ~thrown /\ tokenFrom = "toB58"

\* The decoded parameter set with the fields the token does not carry
\* (sound_vol, sample_rate, sample_size) set as in params.
Decoded ==
  [target EXCEPT !.sound_vol = params.sound_vol,
                 !.sample_rate = params.sample_rate,
                 !.sample_size = params.sample_size]

\* new SoundEffect(params).getRawBuffer()
RenderParams ==
  /\ RoundTripDone
  /\ Len(results) = 0
  /\ \E seed \in RoundTripSeeds :
       LET r == getRawBuffer(params, seed)
       IN  results' = Append(results, [of |-> "params"] @@ r)
  /\ UNCHANGED <<sfx, run, pc, wave>>
  /\ UNCHANGED codecVars

\* new SoundEffect(decoded).getRawBuffer()
RenderDecoded ==
  /\ RoundTripDone
  /\ Len(results) = 1
  /\ \E seed \in RoundTripSeeds :
       LET r == getRawBuffer(Decoded, seed)
       IN  results' = Append(results, [of |-> "target"] @@ r)
  /\ UNCHANGED <<sfx, run, pc, wave>>
  /\ UNCHANGED codecVars

NextRoundTrip == ToB58 \/ FromB58 \/ RenderParams \/ RenderDecoded

SpecRoundTrip == InitRoundTrip /\ [][NextRoundTrip]_vars

(***************************************************************************)
(* Claims about the codec                                                  *)
(***************************************************************************)
\* Two parameter values agree to 5 decimal digits (|a - b| < 0.000005): both
\* finite and less than 5 units of 10^-6 apart.
Close(a, b) == IsFin(a) /\ IsFin(b) /\ Abs(ToFix(a) - ToFix(b)) < 5

\* C3: for every Params p with wave_type in {0,1,2,3} and every p_* field in
\* its documented range, new Params().fromB58(p.toB58()) has p's wave_type
\* and every p_* field close to p's value.
C3_RoundTripClose ==
  RoundTripDone =>
    /\ target.wave_type = params.wave_type
    /\ \A p \in PFields : Close(target[p], params[p])

\* C4: the all-zero parameter set encodes to 89 copies of "1", and that
\* token decodes to wave_type 0 and every p_* field 0.
C4_AllZero ==
  (params = ZeroParams /\ tokenFrom = "toB58") =>
    /\ token = [i \in 1..89 |-> "1"]
    /\ lastOp = "fromB58" =>
         /\ ~thrown
         /\ target.wave_type = 0
         /\ \A p \in PFields : IsZero(target[p])

\* C4's case: the all-zero set has been encoded and decoded into an object
\* that held the class defaults.
C4_Witness ==
  /\ params = ZeroParams
  /\ lastOp = "fromB58"
  /\ tokenFrom = "toB58"
  /\ ~thrown
  /\ Len(token) = 89
  /\ IsZero(target.p_env_sustain)
  /\ ~IsZero(DefaultParams.p_env_sustain)

\* C10: fromB58 on a string with a character outside the alphabet throws and
\* leaves the Params object it was called on as it was.
C10_InvalidCharThrows ==
  [][ (lastOp' = "fromB58" /\ lastOp # "fromB58" /\ HasInvalidChar(token))
        => (thrown' /\ target' = target) ]_vars

\* C10's case: a call on an object that holds decoded (non-default) values
\* has thrown on a full-length string whose last character is invalid.
C10_Witness ==
  /\ lastOp = "fromB58"
  /\ thrown
  /\ Len(token) = 89
  /\ IndexOf(b58alphabet, token[1]) >= 0
  /\ target # DefaultParams

\* C11: toB58 hands 89 bytes to base58Encode: byte 0 is wave_type and the
\* i-th p_* field of paramsOrder has the four bytes of its 32-bit pattern,
\* least-significant first, at 4(i-1)+1 .. 4(i-1)+4; b58decode reads every
\* field back from these offsets.
C11_FieldOffsets ==
  LET data == ToBytes(params)
  IN  /\ Len(data) = 89
      /\ data[1] = params.wave_type
      /\ DecodeFields(data).wave_type = params.wave_type
      /\ \A i \in 1..22 :
           LET p   == paramsOrder[i + 1]
               val == floatToNumber(params[p])
               off == 4 * (i - 1) + 1
           IN  /\ \A k \in 0..3 :
                    data[off + k + 1] = (val \div Pow2(8 * k)) % 256
               /\ DecodeFields(data)[p] = numberToFloat(val)

\* C11's case: toB58 has been called on a set whose fields are all non-zero,
\* the signed ones negative.
C11_Witness ==
  /\ lastOp = "toB58"
  /\ params = MixedParams
  /\ Len(ToBytes(params)) = 89
  /\ ToBytes(params)[5] # ToBytes(params)[2]
  /\ DecodeFields(ToBytes(params)).p_hpf_ramp.n < 0

\* C12: fromJSON changes only the ParameterSet fields the mapping names: a
\* key that is not a field is not stored on the Params object, a field the
\* mapping names takes the mapping's value, every other field keeps the
\* value it had.
C12_OnlyNamedFields ==
  [][ lastOp' = "fromJSON" =>
        /\ DOMAIN target' = DOMAIN DefaultParams
        /\ \A p \in DOMAIN DefaultParams :
             target'[p] = IF p \in DOMAIN struct' THEN struct'[p]
                          ELSE target[p] ]_vars

(***************************************************************************)
(* Claims about RiffWave                                                   *)
(***************************************************************************)
\* w is what the claim says of a RiffWave made from data.
MadeFrom(w, data) ==
  /\ w.data = data
  /\ Len(w.wav) = 44 + Len(data)
  /\ SubSeq(w.wav, 45, Len(w.wav)) = data
  /\ w.header.chunkSize = 36 + Len(data)
  /\ w.header.numChannels = 1
  /\ 8 * w.header.byteRate
       = w.header.sampleRate * w.header.numChannels * w.header.bitsPerSample
  /\ 8 * w.header.blockAlign = w.header.numChannels * w.header.bitsPerSample
  /\ w.header.subChunk2Size = Len(data)
  /\ Len(w.dataURI) >= Len(DataURIPrefix)
  /\ SubSeq(w.dataURI, 1, Len(DataURIPrefix)) = DataURIPrefix

\* C13: after Make(data) or new RiffWave(data), data is the array handed
\* over, wav is 44 header bytes followed by data, the header has chunkSize
\* 36 + length, numChannels 1, byteRate sampleRate*numChannels*bitsPerSample/8,
\* blockAlign numChannels*bitsPerSample/8 and subChunk2Size length, and
\* dataURI starts with 'data:audio/wav;base64,'.
C13_MakeLayout ==
  /\ \A data \in WaveDatas : MadeFrom(Make(wave, data), data)
  /\ lastOp = "Make" => MadeFrom(wave, wave.data)

\* C13's case: Make has run on an object whose header a caller changed, with
\* an array of the longest length tried.
C13_Witness ==
  /\ lastOp = "Make"
  /\ Len(wave.data) = MaxDataLen
  /\ wave.data[1] = 255
  /\ wave.header.sampleRate = 44100
  /\ wave.header.bitsPerSample = 16
  /\ wave.header.byteRate = 88200
  /\ Len(wave.wav) = 44 + MaxDataLen

\* C14: whatever the random draws, a fresh Params after pickupCoin()
\* renders without an error, and the wave generate() returns has non-empty
\* data, non-empty wav and a dataURI starting with 'data:audio/wav;base64,'.
C14_CoinRenders ==
  lastOp = "pickupCoin" =>
    /\ pc # "error"
    /\ wave # NewRiffWave =>
         /\ Len(wave.data) > 0
         /\ Len(wave.wav) > 0
         /\ Len(wave.dataURI) > Len(DataURIPrefix)
         /\ SubSeq(wave.dataURI, 1, Len(DataURIPrefix)) = DataURIPrefix

\* C14's case: generate() has returned for the preset drawn with a sustain
\* of 0, the shortest envelope the preset can have.
C14_Witness ==
  /\ lastOp = "pickupCoin"
  /\ IsZero(params.p_env_sustain)
  /\ pc = "done"
  /\ wave.data = results[1].result.buffer
  /\ Len(wave.data) > 1000

(***************************************************************************)
(* Claims about the render engine                                          *)
(***************************************************************************)
\* La + Ls + Ld, each floor(p_env_x^2 * 100000).
StageTicks(ps) ==
  FloorSqrTimes(ps.p_env_attack, 100000)
    + FloorSqrTimes(ps.p_env_sustain, 100000)
    + FloorSqrTimes(ps.p_env_decay, 100000)

ValidWave(ps) == ps.wave_type \in {SQUARE, SAWTOOTH, SINE, NOISE}

\* getRawBuffer has been entered (the locals exist).
Entered == pc \in {"running", "done", "error"}

\* C1: with a wave type in {0,1,2,3}, getRawBuffer terminates, and its loop
\* is left after at most La + Ls + Ld + 3 iterations, whatever the repeat,
\* arpeggio, frequency-limit and sample-rate settings.
C1_Terminates ==
  /\ []((Entered /\ ValidWave(params)) => run.t <= StageTicks(params) + 2)
  /\ []((pc = "done" /\ ValidWave(params))
          => results[1].ticks <= StageTicks(params) + 3)
  /\ ((pc = "running" /\ ValidWave(params)) ~> (pc = "done"))

\* C1's case: a render with repeat and arpeggio on and a sample rate of 22050
\* has returned after exactly La + Ls + Ld + 3 iterations.
C1_Witness ==
  /\ pc = "done"
  /\ ValidWave(params)
  /\ sfx.repeatTime # 0
  /\ params.sample_rate = 22050
  /\ results[1].ticks = StageTicks(params) + 3
  /\ results[1].ticks > 40

\* C2: at every point of a render the quantized buffer holds exactly twice
\* as many elements as the normalized buffer when sample_size is 16, and
\* exactly as many when it is 8; so does the returned result.
C2_BufferLength ==
  /\ Entered =>
       Len(run.buffer) = (IF params.sample_size = 16 THEN 2 ELSE 1)
                           * Len(run.normalized)
  /\ \A i \in 1..Len(results) :
       Len(results[i].result.buffer)
         = (IF params.sample_size = 16 THEN 2 ELSE 1)
             * Len(results[i].result.normalized)

\* C2's case: a 16-bit render in the middle of its loop, samples emitted.
C2_Witness ==
  /\ pc = "running"
  /\ params.sample_size = 16
  /\ Len(run.normalized) >= 2
  /\ Len(run.buffer) = 2 * Len(run.normalized)

\* C5: with a wave type outside {0,1,2,3} a render never returns normally,
\* and when it throws nothing has been appended to either buffer.
C5_BadWaveThrows ==
  ~ValidWave(params) =>
    /\ pc # "done"
    /\ pc = "error" => (run.buffer = << >> /\ run.normalized = << >>)

\* C6: with all three envelope stage lengths 0 and a valid wave type, the
\* render returns empty buffers and clipped = 0.
C6_ZeroEnvelopeEmpty ==
  ( /\ pc = "done"
    /\ ValidWave(params)
    /\ IsZero(params.p_env_attack)
    /\ IsZero(params.p_env_sustain)
    /\ IsZero(params.p_env_decay) )
  => /\ results[1].result.buffer = << >>
     /\ results[1].result.normalized = << >>
     /\ results[1].result.clipped = 0

\* C7: with a valid wave type every element of the quantized buffer is an
\* integer in [0, 255], for either sample size.
C7_BytesInRange ==
  (Entered /\ ValidWave(params)) =>
    \A i \in 1..Len(run.buffer) : run.buffer[i] \in 0..255

\* C8: with p_freq_limit = 0, a valid wave type and a sample rate of 44100,
\* the returned normalized buffer has La + Ls + Ld + 2 samples, whatever the
\* other parameters and the random stream.
C8_LengthFromEnvelope ==
  ( /\ pc = "done"
    /\ ValidWave(params)
    /\ IsZero(params.p_freq_limit)
    /\ params.sample_rate = 44100 )
  => Len(results[1].result.normalized) = StageTicks(params) + 2

\* C8's case: a Noise render with every effect on has returned its samples.
C8_Witness ==
  /\ pc = "done"
  /\ params.wave_type = NOISE
  /\ IsZero(params.p_freq_limit)
  /\ params.sample_rate = 44100
  /\ sfx.repeatTime # 0
  /\ Len(results[1].result.normalized) = StageTicks(params) + 2
  /\ StageTicks(params) >= 40

\* The parameter set of C9: Noise wave, p_repeat_speed = 0.5, every other
\* encoded field at its default.
IsNoiseRepeat(ps) ==
  \A i \in 1..Len(paramsOrder) : ps[paramsOrder[i]] = NoiseRepeat[paramsOrder[i]]

\* C9: the render of the Noise-wave set with p_repeat_speed = 0.5 and the
\* render of the set decoded from its token have normalized buffers of the
\* same length.
C9_SameLength ==
  (IsNoiseRepeat(params) /\ Len(results) = 2) =>
    Len(results[1].result.normalized) = Len(results[2].result.normalized)

\* C15: two fresh engines made from equal parameter sets with a wave type
\* other than Noise, under one master volume, return the same buffer,
\* normalized and clipped whatever the random source returns: the render
\* that has returned agrees with a second render on every random stream.
C15_SameResult ==
  (pc = "done" /\ params.wave_type # NOISE) =>
    \A seed \in Seeds :
      LET again == getRawBuffer(params, seed)
      IN  /\ again.exit = "break"
          /\ again.result = results[1].result

\* C15's case: a sine render of 45 samples has returned on one stream, and
\* the other stream fills the noise buffer differently.
C15_Witness ==
  /\ pc = "done"
  /\ params.wave_type = SINE
  /\ Len(results[1].result.buffer) >= 45
  /\ \E seed \in Seeds :
       /\ FillNoise(seed, 0) # run.noiseBuffer
       /\ getRawBuffer(params, seed).result = results[1].result

\* C16: the engine derives every coefficient when it is constructed: had a
\* field of the parameter object been changed after new SoundEffect(params)
\* and before getRawBuffer(), the render that has returned would have
\* returned the same result, also with repeat enabled.
C16_DerivedAtConstruction ==
  pc = "done" =>
    \A change \in LaterChanges :
      getRawBufferAfter(params, Override(params, change), run.seed).result
        = results[1].result

\* C17: on every tick on which an envelope value is computed, the stage the
\* envelope is in has a length other than 0 (a stage of length 0 is left on
\* the tick it is entered), so elapsed / length is never 0 / 0 and the
\* envelope value is never NaN.
C17_EnvelopeDefined ==
  pc = "running" =>
    \A st \in {TickStep(sfx, run, params)} :
      st.exit # "break" =>
        /\ sfx.envelopeLength[st.run.envelopeStage + 1] # 0
        /\ st.envVol # NaN

\* C18: within one render the period is multiplied by the arpeggio
\* multiplier at most once: once the arpeggio has fired (arpeggioTime, set
\* to a tick count by the constructor, is 0) it does not fire on a later
\* tick, whatever repeat boundaries occur.
C18_ArpeggioOnce ==
  (pc = "running" /\ ~IsOne(params.p_arp_speed) /\ sfx.arpeggioTime = 0) =>
    ~ArpeggioFires(sfx, run, params)

\* The fields of the engine that a repeat restarts.
RepeatGroup ==
  { "elapsedSinceRepeat", "period", "periodMax", "enableFrequencyCutoff",
    "periodMult", "periodMultSlide", "dutyCycle", "dutyCycleSlide",
    "arpeggioMultiplier", "arpeggioTime" }

\* C19: the repeat handling of a tick at a repeat boundary sets the fields
\* of the repeat group to what the constructor derived for them and leaves
\* every other field of the engine (filters, envelope lengths, phaser) and
\* every local of the render (envelope stage and elapsed, filter state,
\* phaser buffer and pointer, vibrato phase, oscillator phase, output
\* buffers) as it was.
C19_RepeatFrame ==
  (pc = "running" /\ AtRepeatBoundary(sfx)) =>
    \A st \in {RepeatStep(TickState(sfx, run), params)} :
      /\ st.run = run
      /\ DOMAIN st.this = DOMAIN sfx
      /\ \A f \in DOMAIN sfx \ RepeatGroup : st.this[f] = sfx[f]
      /\ \A f \in RepeatGroup : st.this[f] = init(NewSoundEffect, params)[f]

\* C19's case: a repeat boundary on tick 31, in the sustain stage, with the
\* period, the duty cycle, the phaser offset and the high-pass cutoff away
\* from what the constructor set and samples already in the buffers.
C19_Witness ==
  /\ pc = "running"
  /\ AtRepeatBoundary(sfx)
  /\ run.t = 31
  /\ run.envelopeStage = 1
  /\ Len(run.buffer) = 31
  /\ Len(run.flangerBuffer) > 0
  /\ run.phase # 0
  /\ sfx.period # init(NewSoundEffect, params).period
  /\ sfx.dutyCycle # init(NewSoundEffect, params).dutyCycle
  /\ sfx.flangerOffset # init(NewSoundEffect, params).flangerOffset
  /\ sfx.flthp # init(NewSoundEffect, params).flthp

\* C20: when getRawBuffer throws for an unrecognized wave type, no field
\* of the engine has been modified: each has the value it had when the
\* render started, which is the one the constructor gave it.
C20_ThrowBeforeWrite ==
  pc = "error" => sfx = init(NewSoundEffect, params)

\* C21: on every tick that computes waveform samples the duty cycle they
\* are computed with lies in [0, 0.5], also on a tick whose repeat handling
\* has just set it again, and what the Sawtooth branch divides by is not 0.
C21_DutyInRange ==
  pc = "running" =>
    \A st \in {TickStep(sfx, run, params)} :
      st.exit # "break" =>
        /\ 0 <= st.this.dutyCycle
        /\ st.this.dutyCycle <= ONE \div 2
        /\ SawtoothDivisor(Ratio(st.run.phase, st.iperiod),
                           st.this.dutyCycle) # 0

\* C21's case: a sawtooth tick at a repeat boundary that sets the duty
\* cycle to 0.5 again, which the drift then pushes above 0.5.
C21_Witness ==
  /\ pc = "running"
  /\ params.wave_type = SAWTOOTH
  /\ AtRepeatBoundary(sfx)
  /\ initForRepeat(sfx, params).dutyCycle = ONE \div 2
  /\ sfx.dutyCycleSlide > 0
  /\ TickStep(sfx, run, params).exit = "none"
  /\ TickStep(sfx, run, params).this.dutyCycle = ONE \div 2

\* flangerBuffer[ipp & 1023] = ...: the index written.
WriteIndex(ipp) == ipp % 1024

\* flangerBuffer[(ipp - iphase + 1024) & 1023]: the index read.
ReadIndex(ipp, iphase) == (ipp - iphase + 1024) % 1024

\* C22: on every tick that makes the phaser step the tap index is an
\* integer in [0, 1023], the write pointer stays in [0, 1023], the index
\* read is the write pointer minus the tap, wrapped once, in [0, 1023], and
\* the delay buffer holds no more than its 1024 entries.
C22_PhaserInBounds ==
  pc = "running" =>
    \A st \in {TickStep(sfx, run, params)} :
      st.exit # "break" =>
        /\ st.iphase \in 0..1023
        /\ st.run.ipp \in 0..1023
        /\ Len(st.run.flangerBuffer) <= 1024
        /\ \A si \in 0..(OVERSAMPLING - 1) :
             \E ipp \in {(run.ipp + si) % 1024} :
               /\ WriteIndex(ipp) \in 0..1023
               /\ ipp - st.iphase + 1024 >= 0
               /\ ReadIndex(ipp, st.iphase) \in 0..1023

\* C22's case: the delay line is full and the write pointer has wrapped,
\* with the phaser offset below -1023, so that the tap is held at 1023.
C22_Witness ==
  /\ pc = "running"
  /\ run.t > 128
  /\ Len(run.flangerBuffer) = 1024
  /\ run.ipp < 64
  /\ sfx.flangerOffset < -1023 * ONE
  /\ TickStep(sfx, run, params).iphase = 1023

\* C23: an iteration of the loop leaves the envelope stage as it is or
\* moves it on by one (Attack, Sustain, Decay, past Decay); where an
\* envelope value is computed the stage's elapsed count is between 0 and
\* the stage's length; the iteration that moves the stage past Decay is the
\* one that returns, and an iteration that returns without it does so at
\* the frequency cutoff.
C23_EnvelopeOrder ==
  [][ pc = "running" =>
        /\ run'.envelopeStage \in {run.envelopeStage, run.envelopeStage + 1}
        /\ run'.envelopeStage \in 0..3
        /\ run'.envelopeStage <= 2 =>
             /\ 0 <= run'.envelopeElapsed
             /\ run'.envelopeElapsed <= sfx'.envelopeLength[run'.envelopeStage + 1]
        /\ run'.envelopeStage = 3 => pc' = "done"
        /\ (pc' = "done" /\ run'.envelopeStage <= 2) =>
             /\ sfx'.enableFrequencyCutoff
             /\ sfx'.period = sfx'.periodMax
             /\ run'.envelopeStage = run.envelopeStage
             /\ run'.envelopeElapsed = run.envelopeElapsed ]_vars

\* C23's case: a render whose three stages all have ticks has returned on
\* the iteration that moved the stage past Decay, with samples pushed.
C23_Witness ==
  /\ pc = "done"
  /\ run.envelopeStage = 3
  /\ \A i \in 1..3 : sfx.envelopeLength[i] > 0
  /\ ~sfx.enableFrequencyCutoff
  /\ Len(run.normalized) > 3

\* C24: with k = floor(44100 / sample rate) >= 1, an iteration of the loop
\* that runs to its end is the (t + 1)-th completed tick: when k divides
\* t + 1 it pushes one sample, the scaled sum of the block's k tick sums
\* divided by k, and starts a new block; otherwise it pushes nothing and
\* adds its tick sum to the block.  So normalized holds floor(t / k) samples
\* after t completed ticks, and the block open when the loop is left is in
\* no sample.
C24_Decimation ==
  [][ (pc = "running" /\ 44100 \div sfx.sampleRate >= 1) =>
        \A k \in {44100 \div sfx.sampleRate} :
        \A st \in {TickStep(sfx, run, params)} :
          /\ Len(run.normalized) = run.t \div k
          /\ Len(run'.normalized) = run'.t \div k
          /\ run'.t = run.t =>
               /\ pc' # "running"
               /\ run'.normalized = run.normalized
          /\ (run'.t = run.t + 1 /\ (run.t + 1) % k # 0) =>
               /\ run'.normalized = run.normalized
               /\ run'.sampleSum = NAdd(run.sampleSum, st.sample)
          /\ (run'.t = run.t + 1 /\ (run.t + 1) % k = 0) =>
               /\ run'.normalized
                    = Append(run.normalized,
                             Scale(NAdd(run.sampleSum, st.sample), k, sfx'.gain))
               /\ run'.sampleSum = 0 ]_vars

\* C24's case: a render at 8 ticks to a sample has returned with a block of
\* four ticks open, whose sums are in no sample: 44 completed ticks, 5
\* samples.
C24_Witness ==
  /\ pc = "done"
  /\ run.summands = 8
  /\ run.t = 44
  /\ run.numSummed = 4
  /\ run.sampleSum # 0
  /\ Len(run.normalized) = 5

\* Math.floor((sample + 1) * 128) and Math.floor(sample * (1 << 15)) for a
\* sample that is a number.
QuantizedValue(bitsPerChannel, sample) ==
  IF bitsPerChannel = 8 THEN (2 * (sample + ONE)) \div 15625
  ELSE (sample \div 15625) * 512 + ((sample % 15625) * 512) \div 15625

\* The quantized value q is outside what the sample size can hold.
OutOfRange(bitsPerChannel, q) ==
  IF bitsPerChannel = 8 THEN q > 255 \/ q < 0
  ELSE q >= 32768 \/ q < -32768

\* C25: numClipped goes up by exactly one on an iteration that pushes a
\* sample whose quantized value is outside the range and is clamped, and
\* is left alone by every other iteration, so that 0 <= clipped <=
\* normalized.length; at 16 bit the two bytes pushed are the low byte and
\* then the high byte of the clamped value, which lies in [-32768, 32767]
\* (a NaN sample is not clamped, counts no clip and pushes the bytes of 0).
C25_ClipCount ==
  [][ pc = "running" =>
        /\ 0 <= run'.numClipped
        /\ run'.numClipped <= Len(run'.normalized)
        /\ Len(run'.normalized) = Len(run.normalized) =>
             /\ run'.numClipped = run.numClipped
             /\ run'.buffer = run.buffer
        /\ Len(run'.normalized) # Len(run.normalized) =>
             \E s \in {run'.normalized[Len(run'.normalized)]} :
             \E q \in {IF s = NaN THEN 0
                        ELSE QuantizedValue(sfx.bitsPerChannel, s)} :
             \E c \in {IF q >= 32768 THEN 32767
                        ELSE IF q < -32768 THEN -32768 ELSE q} :
               /\ run'.numClipped
                    = run.numClipped
                        + (IF s # NaN /\ OutOfRange(sfx.bitsPerChannel, q)
                           THEN 1 ELSE 0)
               /\ sfx.bitsPerChannel = 16 =>
                    /\ c \in -32768..32767
                    /\ run'.buffer
                         = run.buffer \o << c % 256, (c \div 256) % 256 >> ]_vars

\* C25's case: a 16-bit render has returned with some samples clamped at
\* the top and some at the bottom of the range and others not clamped.
C25_Witness ==
  /\ pc = "done"
  /\ sfx.bitsPerChannel = 16
  /\ run.numClipped > 1
  /\ run.numClipped < Len(run.normalized)
  /\ \E i, j \in 1..Len(run.normalized) :
       /\ run.buffer[2 * i - 1] = 255 /\ run.buffer[2 * i] = 127
       /\ run.buffer[2 * j - 1] = 0 /\ run.buffer[2 * j] = 128

(***************************************************************************)
(* Claims about base 58 and the number packing                             *)
(***************************************************************************)
\* How many elements equal to x the sequence seq begins with.
LeadingCount(seq, x) ==
  CHOOSE n \in 0..Len(seq) :
    /\ \A i \in 1..n : seq[i] = x
    /\ n = Len(seq) \/ seq[n + 1] # x

\* C26: the base-58 encoding of a byte array is made of alphabet symbols
\* only and begins with as many "1" as the array has leading zero bytes,
\* and base58DecodeRaw gives the array back, byte for byte and of the same
\* length, without throwing.
C26_Base58RoundTrip ==
  /\ lastOp \in {"base58Encode", "base58DecodeRaw"} =>
       /\ \A i \in 1..Len(token) : IndexOf(b58alphabet, token[i]) >= 0
       /\ LeadingCount(token, "1") = LeadingCount(b58.data, 0)
  /\ lastOp = "base58DecodeRaw" =>
       /\ ~thrown
       /\ Len(b58.decoded) = Len(b58.data)
       /\ b58.decoded = b58.data

\* C26's case: an array with two leading zero bytes and a non-zero byte
\* has been encoded and decoded.
C26_Witness ==
  /\ lastOp = "base58DecodeRaw"
  /\ b58.data = <<0, 0, 255>>
  /\ LeadingCount(token, "1") = 2
  /\ Len(token) > 2

\* The sign bit, the exponent field and the mantissa field of a pattern.
PatternFields(w) ==
  << IF w < 0 THEN 1 ELSE 0, (w \div Pow2(23)) % 256, w % Pow2(23) >>

\* A number that is not 0 and not NaN and whose binary exponent is outside
\* [-126, 127].
OutsideBinary32(v) ==
  \/ v.k = "inf"
  \/ /\ v.k = "fin"
     /\ v.n # 0
     /\ \E ex \in {Log2Floor(Abs(v.n), v.d) + v.e} : ex > 127 \/ ex < -126

SecondCall ==
  RunTicks(TickState(sfx, NewLocals(sfx, run.seed)), params, TickCap)

\* C28: a second getRawBuffer() on the same SoundEffect, with a wave type
\* other than Noise and the master volume unchanged, returns the buffer,
\* normalized and clipped that the first call returned.
C28_SecondCallSame ==
  (pc = "done" /\ params.wave_type # NOISE) =>
    \A second \in {SecondCall} :
      /\ second.exit = "break"
      /\ RenderResult(second.run) = results[1].result

(***************************************************************************)
(* Claims about tokens of any length                                       *)
(***************************************************************************)
\* The first 89 bytes of b, with 0 for those b does not have.
First89(b) == [i \in 1..89 |-> IF i <= Len(b) THEN b[i] ELSE 0]

\* C29: fromB58 on a string of alphabet characters does not throw, however
\* long the string: every field is decoded from the first 89 bytes the
\* string decodes to, bytes that are missing counting as 0 and bytes after
\* the 89th being ignored, and wave_type is undefined for the empty string.
C29_AnyLength ==
  (lastOp = "fromB58" /\ ~HasInvalidChar(token)) =>
    \A raw \in {base58DecodeRaw(token, b58alphabet)} :
    \A b \in {First89(raw.bytes)} :
      /\ ~thrown
      /\ raw.ok
      /\ target.wave_type = IF Len(token) = 0 THEN Undefined ELSE b[1]
      /\ \A i \in 1..22 :
           target[paramsOrder[i + 1]]
             = numberToFloat(Word32(b[4 * i - 2], b[4 * i - 1],
                                    b[4 * i], b[4 * i + 1]))

\* C29's case: the two-character string "zz", which decodes to two bytes,
\* has been decoded: the first field has one of its bytes, the others none.
C29_Witness ==
  /\ lastOp = "fromB58"
  /\ ~thrown
  /\ token = <<"z", "z">>
  /\ base58DecodeRaw(token, b58alphabet).bytes = <<13, 35>>
  /\ target.wave_type = 13
  /\ target.p_env_attack = numberToFloat(35)
  /\ IsZero(target.p_env_sustain)

====
